---- MODULE Spec2Model ----
(***************************************************************************)
(* Verification model of the MPM particle-to-grid core of rust-gpu-test-2: *)
(* the quadratic B-spline weights (shared/src/mpm_utils.rs), the grid      *)
(* indexing (shared/src/grid.rs), the 2x2 SVD (shaders/src/svd.rs), the    *)
(* p2g kernel (shaders/src/p2g.rs), the grid-clear kernel                  *)
(* (shaders/src/lib.rs) and the dispatch set up in src/main.rs.            *)
(*                                                                         *)
(* f32 values are IEEE 754 binary32 values and every operation on them     *)
(* rounds as the hardware does (round to nearest, ties to even), with      *)
(* signed zeros, subnormals, infinities and NaN.                           *)
(***************************************************************************)
EXTENDS Integers, Sequences, FiniteSets, TLC

(***************************************************************************)
(* Bounds of the model.                                                    *)
(***************************************************************************)
\* grid cells per side (N_GRID = 128 * QUALITY in the source, scaled down)
N_GRID_X == 11
\* number of particles (N_PARTICLES = 9 in the source, scaled down)
N_PARTICLES == 3
\* particles in the buffers a single clear-and-P2G step is run on
StepParticles == 2
\* number of executions of the invocation chain that are explored
MaxSteps == 2
\* arguments of the weight function are k / WeightArgDen, |k| <= WeightArgMax
WeightArgDen == 4
WeightArgMax == 8
MaxDispatchN == 66
\* material tags are the bytes 0..MaxMaterialTag (a u8 in the source, scaled down)
MaxMaterialTag == 4
\* elements per buffer of a test chain (64 in the tests, scaled down)
PassElems == 2
\* slices handed to sort have at most MaxSortLen elements
MaxSortLen == 5
\* their keys are 0..SortKeyMax and u32::MAX
SortKeyMax == 1
\* one kernel pass under every thread order: slices of 2 .. PassLen elements,
\* thread ids 0 .. PassLen - 1, stages 0 .. PassMaxStage
PassLen == 4
PassMaxStage == 1

(***************************************************************************)
(* Integer helpers.                                                        *)
(***************************************************************************)
IAbs(i) == IF i < 0 THEN -i ELSE i
ISign(i) == IF i < 0 THEN -1 ELSE IF i > 0 THEN 1 ELSE 0

\* the element of a one-element set: The({e(x) : x \in {v}}) is e at the value
\* of v, with v computed first.  The operators below take their arguments by
\* value in this way, as the functions of the source do: Op(a_0) is the body
\* at a, the value of a_0.
The(S) == CHOOSE r \in S : TRUE
IMax(a_0, b_0) ==
    The({(
    IF a < b THEN b ELSE a
    ) : a \in {a_0}, b \in {b_0}})
IMin(a_0, b_0) ==
    The({(
    IF a < b THEN a ELSE b
    ) : a \in {a_0}, b \in {b_0}})

\* the number of binary digits of m, 0 <= m < 2^31
BitLen4(m_0) ==
    The({(
    IF m < 4 THEN (IF m < 2 THEN m ELSE 2) ELSE IF m < 8 THEN 3 ELSE 4
    ) : m \in {m_0}})
BitLen8(m_0) ==
    The({(
    IF m < 16 THEN BitLen4(m) ELSE 4 + BitLen4(m \div 16)
    ) : m \in {m_0}})
BitLen(m_0) ==
    The({(
    IF m < 65536
    THEN (IF m < 256 THEN BitLen8(m) ELSE 8 + BitLen8(m \div 256))
    ELSE (IF m < 16777216 THEN 16 + BitLen8(m \div 65536)
          ELSE 24 + BitLen8(m \div 16777216))
    ) : m \in {m_0}})

(***************************************************************************)
(* IEEE 754 binary32.  A value is [s, e, m]: (-1)^s * m * 2^e with         *)
(*   m in 2^23 .. 2^24 - 1 and e in -149 .. 104   (normal),                *)
(*   m in 0 .. 2^23 - 1   and e = -149             (zero and subnormal),   *)
(*   m = 0 and e = 105                             (infinity),             *)
(*   m = 1 and e = 105, s = 0                      (NaN).                  *)
(* Every operation rounds to nearest, ties to even, as the f32 operations  *)
(* of Rust do.  All intermediate integers stay below 2^31.                 *)
(***************************************************************************)
F32(s_0, e_0, m_0) ==
    The({(
    [s |-> s, e |-> e, m |-> m]
    ) : s \in {s_0}, e \in {e_0}, m \in {m_0}})
FZero == [s |-> 0, e |-> -149, m |-> 0]
NegZero == [s |-> 1, e |-> -149, m |-> 0]
FOne == [s |-> 0, e |-> -23, m |-> 8388608]
FHalf == [s |-> 0, e |-> -24, m |-> 8388608]
NaN == [s |-> 0, e |-> 105, m |-> 1]
PosInf == [s |-> 0, e |-> 105, m |-> 0]
NegInf == [s |-> 1, e |-> 105, m |-> 0]
FInfinity(s_0) ==
    The({(
    [s |-> s, e |-> 105, m |-> 0]
    ) : s \in {s_0}})
FSignedZero(s_0) ==
    The({(
    [s |-> s, e |-> -149, m |-> 0]
    ) : s \in {s_0}})

IsNaN(a_0) ==
    The({(
    a.e = 105 /\ a.m # 0
    ) : a \in {a_0}})
IsInf(a_0) ==
    The({(
    a.e = 105 /\ a.m = 0
    ) : a \in {a_0}})
IsFinite(a_0) ==
    The({(
    a.e # 105
    ) : a \in {a_0}})
IsZero(a_0) ==
    The({(
    a.e # 105 /\ a.m = 0
    ) : a \in {a_0}})

FNeg(a_0) ==
    The({(
    IF IsNaN(a) THEN a ELSE [s |-> 1 - a.s, e |-> a.e, m |-> a.m]
    ) : a \in {a_0}})
FAbs(a_0) ==
    The({(
    [s |-> 0, e |-> a.e, m |-> a.m]
    ) : a \in {a_0}})
SignXor(a_0, b_0) ==
    The({(
    IF a.s = b.s THEN 0 ELSE 1
    ) : a \in {a_0}, b \in {b_0}})

\* a significand of at most 24 bits at exponent e >= -149, made canonical
RoundPack(s_0, e_0, q_0) ==
    The({(
    IF q = 16777216 THEN (IF e + 1 > 104 THEN FInfinity(s) ELSE F32(s, e + 1, 8388608))
    ELSE IF e > 104 THEN FInfinity(s)
    ELSE F32(s, e, q)
    ) : s \in {s_0}, e \in {e_0}, q \in {q_0}})

\* m cut by sh > 0 bits, to nearest, ties to even; sticky: bits below m were set
RoundCut(s_0, e_0, sticky_0, q_0, r_0, half_0) ==
    The({(
    RoundPack(s, e,
        IF r > half \/ (r = half /\ (sticky \/ q % 2 = 1)) THEN q + 1 ELSE q)
    ) : s \in {s_0}, e \in {e_0}, sticky \in {sticky_0}, q \in {q_0}, r \in {r_0}, half \in {half_0}})

RoundBy(s_0, e_0, m_0, sticky_0, len_0, sh_0) ==
    The({(
    IF sh > len THEN FSignedZero(s)
    ELSE IF sh > 0
         THEN RoundCut(s, e + sh, sticky, m \div (2 ^ sh), m % (2 ^ sh), 2 ^ (sh - 1))
    ELSE RoundPack(s, e - IMin(24 - len, e + 149), m * (2 ^ IMin(24 - len, e + 149)))
    ) : s \in {s_0}, e \in {e_0}, m \in {m_0}, sticky \in {sticky_0}, len \in {len_0}, sh \in {sh_0}})

\* the f32 nearest to (-1)^s * (m + f) * 2^e, 0 <= m < 2^31, where 0 <= f < 1
\* and f > 0 exactly if sticky
Round(s_0, e_0, m_0, sticky_0) ==
    The({(
    IF m = 0 THEN FSignedZero(s)
    ELSE RoundBy(s, e, m, sticky, BitLen(m), IMax(BitLen(m) - 24, (-149) - e))
    ) : s \in {s_0}, e \in {e_0}, m \in {m_0}, sticky \in {sticky_0}})

\* "i as f32"
FInt(i_0) ==
    The({(
    Round(IF i < 0 THEN 1 ELSE 0, 0, IAbs(i), FALSE)
    ) : i \in {i_0}})

\* comparison of magnitudes, and of values that are not NaN: -1, 0 or 1
MagCmp(a_0, b_0) ==
    The({(
    IF a.e # b.e THEN (IF a.e < b.e THEN -1 ELSE 1) ELSE ISign(a.m - b.m)
    ) : a \in {a_0}, b \in {b_0}})
FCmp(a_0, b_0) ==
    The({(
    IF IsZero(a) /\ IsZero(b) THEN 0
    ELSE IF a.s # b.s THEN (IF a.s = 1 THEN -1 ELSE 1)
    ELSE IF a.s = 0 THEN MagCmp(a, b)
    ELSE MagCmp(b, a)
    ) : a \in {a_0}, b \in {b_0}})
\* IEEE comparisons: every comparison with NaN is false, -0.0 == 0.0
FLt(a_0, b_0) ==
    The({(
    ~IsNaN(a) /\ ~IsNaN(b) /\ FCmp(a, b) < 0
    ) : a \in {a_0}, b \in {b_0}})
FGt(a_0, b_0) ==
    The({(
    FLt(b, a)
    ) : a \in {a_0}, b \in {b_0}})
FEq(a_0, b_0) ==
    The({(
    ~IsNaN(a) /\ ~IsNaN(b) /\ FCmp(a, b) = 0
    ) : a \in {a_0}, b \in {b_0}})
FLe(a_0, b_0) ==
    The({(
    ~IsNaN(a) /\ ~IsNaN(b) /\ FCmp(a, b) <= 0
    ) : a \in {a_0}, b \in {b_0}})
FGe(a_0, b_0) ==
    The({(
    FLe(b, a)
    ) : a \in {a_0}, b \in {b_0}})

\* the sum of x and y, |x| >= |y| > 0 finite: x.m with three guard bits, y.m
\* shifted to the exponent of x (yg, with lost == bits of y fell off)
AddAligned(x_0, y_0, xg_0, yg_0, lost_0) ==
    The({(
    IF x.s = y.s THEN Round(x.s, x.e - 3, xg + yg, lost)
    ELSE IF xg = yg /\ ~lost THEN FZero
    ELSE Round(x.s, x.e - 3, IF lost THEN xg - yg - 1 ELSE xg - yg, lost)
    ) : x \in {x_0}, y \in {y_0}, xg \in {xg_0}, yg \in {yg_0}, lost \in {lost_0}})

AddOrdered(x_0, y_0, d_0) ==
    The({(
    IF d = 0 THEN AddAligned(x, y, x.m * 8, y.m * 8, FALSE)
    ELSE IF d >= 27 THEN AddAligned(x, y, x.m * 8, 0, TRUE)
    ELSE AddAligned(x, y, x.m * 8, (y.m * 8) \div (2 ^ d), ((y.m * 8) % (2 ^ d)) # 0)
    ) : x \in {x_0}, y \in {y_0}, d \in {d_0}})

\* f32 addition
FAdd(a_0, b_0) ==
    The({(
    IF IsNaN(a) \/ IsNaN(b) THEN NaN
    ELSE IF IsInf(a) THEN (IF IsInf(b) /\ a.s # b.s THEN NaN ELSE a)
    ELSE IF IsInf(b) THEN b
    ELSE IF IsZero(a) /\ IsZero(b) THEN (IF a.s = b.s THEN a ELSE FZero)
    ELSE IF IsZero(a) THEN b
    ELSE IF IsZero(b) THEN a
    ELSE IF MagCmp(a, b) >= 0 THEN AddOrdered(a, b, a.e - b.e)
    ELSE AddOrdered(b, a, b.e - a.e)
    ) : a \in {a_0}, b \in {b_0}})

FSub(a_0, b_0) ==
    The({(
    FAdd(a, FNeg(b))
    ) : a \in {a_0}, b \in {b_0}})

\* the 48-bit product x * y of x, y < 2^24 as <<high, low>>, 24 bits each,
\* from the 12-bit halves of x and y
MulCarry(hh_0, mid_0, ll_0) ==
    The({(
    <<hh + ((ll \div 4096) + mid) \div 4096,
      (((ll \div 4096) + mid) % 4096) * 4096 + (ll % 4096)>>
    ) : hh \in {hh_0}, mid \in {mid_0}, ll \in {ll_0}})
Mul48(x_0, y_0) ==
    The({(
    MulCarry((x \div 4096) * (y \div 4096),
             (x \div 4096) * (y % 4096) + (x % 4096) * (y \div 4096),
             (x % 4096) * (y % 4096))
    ) : x \in {x_0}, y \in {y_0}})

\* the product high * 2^24 + low at exponent e, its leading 30 bits kept
MulRoundTop(s_0, e_0, high_0, low_0, t_0) ==
    The({(
    Round(s, e + 24 - t, high * (2 ^ t) + low \div (2 ^ (24 - t)),
          (low % (2 ^ (24 - t))) # 0)
    ) : s \in {s_0}, e \in {e_0}, high \in {high_0}, low \in {low_0}, t \in {t_0}})
MulRound(s_0, e_0, p_0) ==
    The({(
    IF p[1] = 0 THEN Round(s, e, p[2], FALSE)
    ELSE MulRoundTop(s, e, p[1], p[2], IMin(24, 30 - BitLen(p[1])))
    ) : s \in {s_0}, e \in {e_0}, p \in {p_0}})

\* f32 multiplication
FMul(a_0, b_0) ==
    The({(
    IF IsNaN(a) \/ IsNaN(b) THEN NaN
    ELSE IF IsInf(a) \/ IsInf(b)
         THEN (IF IsZero(a) \/ IsZero(b) THEN NaN ELSE FInfinity(SignXor(a, b)))
    ELSE IF IsZero(a) \/ IsZero(b) THEN FSignedZero(SignXor(a, b))
    ELSE MulRound(SignXor(a, b), a.e + b.e, Mul48(a.m, b.m))
    ) : a \in {a_0}, b \in {b_0}})

\* a finite non-zero value with its significand shifted up to 24 bits (the
\* exponent may fall below -149)
NormalizedBy(a_0, k_0) ==
    The({(
    [s |-> a.s, e |-> a.e - k, m |-> a.m * (2 ^ k)]
    ) : a \in {a_0}, k \in {k_0}})
Normalized(a_0) ==
    The({(
    NormalizedBy(a, 24 - BitLen(a.m))
    ) : a \in {a_0}})

\* long division: seven further quotient bits from the remainder qr[2]
DivStep(qr_0, d_0) ==
    The({(
    <<qr[1] * 128 + (qr[2] * 128) \div d, (qr[2] * 128) % d>>
    ) : qr \in {qr_0}, d \in {d_0}})
DivRound(s_0, e_0, qr_0) ==
    The({(
    Round(s, e, qr[1], qr[2] # 0)
    ) : s \in {s_0}, e \in {e_0}, qr \in {qr_0}})
\* x / y for normalized x and y: the quotient to 28 binary places
DivNormalized(s_0, x_0, y_0) ==
    The({(
    DivRound(s, x.e - y.e - 28,
        DivStep(DivStep(DivStep(DivStep(<<x.m \div y.m, x.m % y.m>>, y.m), y.m), y.m), y.m))
    ) : s \in {s_0}, x \in {x_0}, y \in {y_0}})

\* f32 division
FDiv(a_0, b_0) ==
    The({(
    IF IsNaN(a) \/ IsNaN(b) THEN NaN
    ELSE IF IsInf(a) THEN (IF IsInf(b) THEN NaN ELSE FInfinity(SignXor(a, b)))
    ELSE IF IsInf(b) THEN FSignedZero(SignXor(a, b))
    ELSE IF IsZero(b) THEN (IF IsZero(a) THEN NaN ELSE FInfinity(SignXor(a, b)))
    ELSE IF IsZero(a) THEN FSignedZero(SignXor(a, b))
    ELSE DivNormalized(SignXor(a, b), Normalized(a), Normalized(b))
    ) : a \in {a_0}, b \in {b_0}})

\* f32::recip
FRecip(a_0) ==
    The({(
    FDiv(FOne, a)
    ) : a \in {a_0}})

\* the f32 nearest to n / d, as a decimal literal of that value is read
Rat(n_0, d_0) ==
    The({(
    FDiv(FInt(n), FInt(d))
    ) : n \in {n_0}, d \in {d_0}})

\* f32::max / f32::min: a NaN operand is ignored
FMax(a_0, b_0) ==
    The({(
    IF IsNaN(a) THEN b ELSE IF IsNaN(b) THEN a ELSE IF FLt(a, b) THEN b ELSE a
    ) : a \in {a_0}, b \in {b_0}})
FMin(a_0, b_0) ==
    The({(
    IF IsNaN(a) THEN b ELSE IF IsNaN(b) THEN a ELSE IF FLt(b, a) THEN b ELSE a
    ) : a \in {a_0}, b \in {b_0}})

\* f32::clamp: NaN stays NaN
FClamp(a_0, lo_0, hi_0) ==
    The({(
    IF FLt(a, lo) THEN lo ELSE IF FGt(a, hi) THEN hi ELSE a
    ) : a \in {a_0}, lo \in {lo_0}, hi \in {hi_0}})

\* a and b differ by rounding only: by at most 2^-20 of the larger magnitude
FClose(a_0, b_0) ==
    The({(
    \/ FEq(a, b)
    \/ FLe(FAbs(FSub(a, b)), FMul(FMax(FAbs(a), FAbs(b)), F32(0, -43, 8388608)))
    ) : a \in {a_0}, b \in {b_0}})
\* |a - b| <= tol
FWithin(a_0, b_0, tol_0) ==
    The({(
    FLe(FAbs(FSub(a, b)), tol)
    ) : a \in {a_0}, b \in {b_0}, tol \in {tol_0}})

\* the integer part ip of |a| and whether a fraction is left, as a float
FloorOf(s_0, ip_0, frac_0) ==
    The({(
    IF s = 0 THEN Round(0, 0, ip, FALSE)
    ELSE IF frac THEN Round(1, 0, ip + 1, FALSE)
    ELSE Round(1, 0, ip, FALSE)
    ) : s \in {s_0}, ip \in {ip_0}, frac \in {frac_0}})
\* f32::floor
FFloor(a_0) ==
    The({(
    IF a.e >= 0 THEN a
    ELSE IF a.e <= -24 THEN FloorOf(a.s, 0, a.m # 0)
    ELSE FloorOf(a.s, a.m \div (2 ^ (-a.e)), (a.m % (2 ^ (-a.e))) # 0)
    ) : a \in {a_0}})

\* square root digit by digit: rr = <<root, remainder>>, the next two bits of
\* the radicand are pair
SqrtBit(root_0, rem_0) ==
    The({(
    IF rem >= 4 * root + 1 THEN <<2 * root + 1, rem - (4 * root + 1)>>
    ELSE <<2 * root, rem>>
    ) : root \in {root_0}, rem \in {rem_0}})
\* the 13 bit pairs of the radicand m < 2^26, then 13 pairs of zeros
RECURSIVE SqrtDigits(_, _, _)
SqrtDigits(rr_0, m_0, k_0) ==
    The({(
    IF k = 26 THEN rr
    ELSE SqrtDigits(SqrtBit(rr[1], 4 * rr[2]
                                   + (IF k < 13 THEN (m \div (4 ^ (12 - k))) % 4 ELSE 0)),
                    m, k + 1)
    ) : rr \in {rr_0}, m \in {m_0}, k \in {k_0}})
SqrtRound(e_0, rr_0) ==
    The({(
    Round(0, e, rr[1], rr[2] # 0)
    ) : e \in {e_0}, rr \in {rr_0}})
\* sqrt(m * 2^e) for 2^23 <= m < 2^25 and e even: the root of m * 2^26
SqrtEven(m_0, e_0) ==
    The({(
    SqrtRound((e - 26) \div 2, SqrtDigits(<<0, 0>>, m, 0))
    ) : m \in {m_0}, e \in {e_0}})
SqrtNormalized(a_0) ==
    The({(
    IF a.e % 2 = 0 THEN SqrtEven(a.m, a.e) ELSE SqrtEven(2 * a.m, a.e - 1)
    ) : a \in {a_0}})

\* f32::sqrt
FSqrt(a_0) ==
    The({(
    IF IsNaN(a) THEN NaN
    ELSE IF IsZero(a) THEN a
    ELSE IF a.s = 1 THEN NaN
    ELSE IF IsInf(a) THEN a
    ELSE SqrtNormalized(Normalized(a))
    ) : a \in {a_0}})

I32_MAX == 2147483647
I32_MIN == -I32_MAX - 1

\* "as i32" on an f32: truncation toward zero, saturating, NaN gives 0
TruncMagnitude(a_0) ==
    The({(
    IF a.e >= 0 THEN a.m * (2 ^ a.e)
    ELSE IF a.e <= -24 THEN 0
    ELSE a.m \div (2 ^ (-a.e))
    ) : a \in {a_0}})
f32_as_i32(a_0) ==
    The({(
    IF IsNaN(a) THEN 0
    ELSE IF a.e >= 8 THEN (IF a.s = 0 THEN I32_MAX ELSE I32_MIN)
    ELSE IF a.s = 0 THEN TruncMagnitude(a)
    ELSE -TruncMagnitude(a)
    ) : a \in {a_0}})

\* x % 1.0 (the remainder keeps the sign of x)
FRemOne(a_0) ==
    The({(
    IF ~IsFinite(a) THEN NaN
    ELSE IF a.e >= 0 THEN FSignedZero(a.s)
    ELSE IF a.e <= -24 THEN a
    ELSE Round(a.s, a.e, a.m % (2 ^ (-a.e)), FALSE)
    ) : a \in {a_0}})

(***************************************************************************)
(* f32::exp.  The argument is reduced to k * ln 2 + r, 0 <= r < ln 2, and  *)
(* exp(r) is built in 46-bit fixed point from the factors 1 + 2^-i (one    *)
(* shift and one addition each), then rounded once; the result is the f32  *)
(* nearest to the true exponential except within 2^-40 of a tie.  A fixed  *)
(* point number is <<high, low>>, high * 2^23 + low in units of 2^-46.     *)
(***************************************************************************)
WBase == 2 ^ 23
WLn2 == <<5814539, 8254580>>
\* ln(1 + 2^-i) for i = 1 .. 23
WLogTable ==
    << <<3401287, 7126936>>, <<1871863, 6540621>>, <<988035, 5999293>>, <<508556, 1573420>>,
       <<258131, 3204995>>, <<130058, 4556768>>, <<65281, 2731074>>, <<32704, 1394018>>,
       <<16368, 174507>>, <<8188, 21829>>, <<4095, 2730>>, <<2047, 6291797>>,
       <<1023, 7864363>>, <<511, 8257541>>, <<255, 8355841>>, <<127, 8380416>>,
       <<63, 8386560>>, <<31, 8388096>>, <<15, 8388480>>, <<7, 8388576>>,
       <<3, 8388600>>, <<1, 8388606>>, <<1, 0>> >>

WAdd(a_0, b_0) ==
    The({(
    <<a[1] + b[1] + (a[2] + b[2]) \div WBase, (a[2] + b[2]) % WBase>>
    ) : a \in {a_0}, b \in {b_0}})
\* a - b for a >= b
WSub(a_0, b_0) ==
    The({(
    IF a[2] >= b[2] THEN <<a[1] - b[1], a[2] - b[2]>>
    ELSE <<a[1] - b[1] - 1, a[2] + WBase - b[2]>>
    ) : a \in {a_0}, b \in {b_0}})
WLe(a_0, b_0) ==
    The({(
    a[1] < b[1] \/ (a[1] = b[1] /\ a[2] <= b[2])
    ) : a \in {a_0}, b \in {b_0}})
\* a / 2^i for 1 <= i <= 23
WShr(a_0, i_0) ==
    The({(
    <<a[1] \div (2 ^ i), (a[1] % (2 ^ i)) * (2 ^ (23 - i)) + a[2] \div (2 ^ i)>>
    ) : a \in {a_0}, i \in {i_0}})
\* a * k for a < 2^46 and k < 2^8
WTimes(a_0, k_0) ==
    The({(
    <<a[1] * k + (a[2] * k) \div WBase, (a[2] * k) % WBase>>
    ) : a \in {a_0}, k \in {k_0}})

\* |a| for a finite a with |a| < 128
WFromShift(m_0, sh_0) ==
    The({(
    IF sh >= 23 THEN <<m * (2 ^ (sh - 23)), 0>>
    ELSE IF sh >= 0 THEN <<m \div (2 ^ (23 - sh)), (m % (2 ^ (23 - sh))) * (2 ^ sh)>>
    ELSE IF sh > -24 THEN <<0, m \div (2 ^ (-sh))>>
    ELSE <<0, 0>>
    ) : m \in {m_0}, sh \in {sh_0}})
WFromF32(a_0) ==
    The({(
    WFromShift(a.m, a.e + 46)
    ) : a \in {a_0}})

\* floor(x / ln 2)
WQuotientNear(x_0, k0_0) ==
    The({(
    CHOOSE k \in IMax(k0 - 1, 0)..(k0 + 1) :
        WLe(WTimes(WLn2, k), x) /\ ~WLe(WTimes(WLn2, k + 1), x)
    ) : x \in {x_0}, k0 \in {k0_0}})
WQuotient(x_0) ==
    The({(
    WQuotientNear(x, x[1] \div 5814540)
    ) : x \in {x_0}})

\* the factors 1 + 2^-i, i = k .. 23, taken greedily: ry = <<r, y>>
RECURSIVE ExpFactors(_, _)
ExpFactors(ry_0, i_0) ==
    The({(
    IF i > 23 THEN ry
    ELSE IF WLe(WLogTable[i], ry[1])
         THEN ExpFactors(<<WSub(ry[1], WLogTable[i]), WAdd(ry[2], WShr(ry[2], i))>>, i + 1)
    ELSE ExpFactors(ry, i + 1)
    ) : ry \in {ry_0}, i \in {i_0}})

\* y * (1 + r) for the r < 2^-22 that is left: y + (y.high * r) / 2^23
ExpTailAdd(y_0, p_0) ==
    The({(
    WAdd(y, <<0, 2 * p[1] + p[2] \div WBase>>)
    ) : y \in {y_0}, p \in {p_0}})
ExpTail(ry_0) ==
    The({(
    ExpTailAdd(ry[2], Mul48(ry[2][1], ry[1][1] * WBase + ry[1][2]))
    ) : ry \in {ry_0}})

\* exp(r) * 2^k, rounded
ExpScaled(y_0, k_0) ==
    The({(
    Round(0, k - 29, y[1] * 64 + y[2] \div 131072, TRUE)
    ) : y \in {y_0}, k \in {k_0}})
ExpReduced(r_0, k_0) ==
    The({(
    ExpScaled(ExpTail(ExpFactors(<<r, <<WBase, 0>>>>, 1)), k)
    ) : r \in {r_0}, k \in {k_0}})

ExpPositive(x_0, k_0) ==
    The({(
    ExpReduced(WSub(x, WTimes(WLn2, k)), k)
    ) : x \in {x_0}, k \in {k_0}})
\* exp(-x) = 2^-(k + 1) * exp((k + 1) ln 2 - x)
ExpNegative(x_0, k_0) ==
    The({(
    ExpReduced(WSub(WTimes(WLn2, k + 1), x), -(k + 1))
    ) : x \in {x_0}, k \in {k_0}})
ExpOf(s_0, x_0) ==
    The({(
    IF x = <<0, 0>> THEN FOne
    ELSE IF s = 0 THEN ExpPositive(x, WQuotient(x)) ELSE ExpNegative(x, WQuotient(x))
    ) : s \in {s_0}, x \in {x_0}})

\* the f32 nearest to exp(a)
FExpNearest(a_0) ==
    The({(
    IF IsNaN(a) THEN NaN
    ELSE IF IsZero(a) THEN FOne
    ELSE IF a.e >= -16 THEN (IF a.s = 0 THEN PosInf ELSE FZero)
    ELSE ExpOf(a.s, WFromF32(a))
    ) : a \in {a_0}})

\* the f32 next above and next below r >= 0 (exp is never negative)
FNextUp(r_0) ==
    The({(
    IF r.e = 105 THEN r
    ELSE IF r.m < 16777215 THEN F32(0, r.e, r.m + 1)
    ELSE IF r.e = 104 THEN PosInf
    ELSE F32(0, r.e + 1, 8388608)
    ) : r \in {r_0}})
FNextDown(r_0) ==
    The({(
    IF r.e = 105 THEN F32(0, 104, 16777215)
    ELSE IF r.m = 0 THEN r
    ELSE IF r.m = 8388608 /\ r.e > -149 THEN F32(0, r.e - 1, 16777215)
    ELSE F32(0, r.e, r.m - 1)
    ) : r \in {r_0}})

\* f32::exp.  Rust leaves the precision of f32::exp unspecified and the expf
\* of the build is not correctly rounded: it returns the f32 nearest to the
\* exponential or a neighbour of it.  FExp(a) is the set of the values the
\* call may return; exp(0) = 1, exp(NaN) and the results for |a| >= 128 are
\* exact.
FExp(a_0) ==
    The({(
    IF IsNaN(a) \/ IsZero(a) \/ a.e >= -16 THEN {FExpNearest(a)}
    ELSE The({{FNextDown(r), r, FNextUp(r)} : r \in {FExpNearest(a)}})
    ) : a \in {a_0}})

(***************************************************************************)
(* Simulation constants, shared/src/lib.rs.                                *)
(***************************************************************************)
QUALITY == 1
MATERIAL_GROUP_SIZE == N_PARTICLES \div 3
DX == FDiv(FOne, FInt(N_GRID_X))
INV_DX == FInt(N_GRID_X)
DT == FDiv(Rat(1, 10000), FInt(QUALITY))
P_VOL == FMul(FMul(DX, FHalf), FMul(DX, FHalf))
P_RHO == FOne
P_MASS == FMul(P_VOL, P_RHO)
YOUNGS_MODULUS == FInt(5000)
POISSON_RATIO == Rat(1, 5)
MU_0 == FDiv(YOUNGS_MODULUS, FMul(FInt(2), FAdd(FOne, POISSON_RATIO)))
LAMBDA_0 ==
    FDiv(FMul(YOUNGS_MODULUS, POISSON_RATIO),
         FMul(FAdd(FOne, POISSON_RATIO), FSub(FOne, FMul(FInt(2), POISSON_RATIO))))

(***************************************************************************)
(* WeightFunction, shared/src/mpm_utils.rs.                                *)
(***************************************************************************)
\* the derivative of the spline where the spline itself is wanted
quadratic_weight_gradient(x_0) ==
    The({(
    LET x_abs == FAbs(x)
    IN IF FLt(x_abs, FHalf) THEN FMul(FInt(-2), x)
       ELSE IF FLt(x_abs, Rat(3, 2)) THEN FSub(x, FMul(Rat(3, 2), FInt(ISign(FCmp(x, FZero)))))
       ELSE FZero
    ) : x \in {x_0}})

quadratic_weight(x_0) ==
    The({(
    LET x_abs == FAbs(x)
    IN IF FLt(x_abs, FHalf)
       THEN FSub(Rat(3, 4), FMul(x, x))
       ELSE IF FLt(x_abs, Rat(3, 2))
            THEN FMul(FMul(FHalf, FSub(Rat(3, 2), x)), FSub(Rat(3, 2), x))
            ELSE FZero
    ) : x \in {x_0}})

\* fx is a Vec2, a pair <<x, y>>
quadratic_weight_2d(fx_0) ==
    The({(
    FMul(quadratic_weight(fx[1]), quadratic_weight(fx[2]))
    ) : fx \in {fx_0}})

(***************************************************************************)
(* glam Vec2 / Mat2.  A Vec2 is <<x, y>>, a Mat2 is <<x_axis, y_axis>>     *)
(* (column-major, as in glam).                                             *)
(***************************************************************************)
Vec2(x_0, y_0) ==
    The({(
    <<x, y>>
    ) : x \in {x_0}, y \in {y_0}})
VZero == <<FZero, FZero>>
VAdd(a_0, b_0) ==
    The({(
    <<FAdd(a[1], b[1]), FAdd(a[2], b[2])>>
    ) : a \in {a_0}, b \in {b_0}})
VSub(a_0, b_0) ==
    The({(
    <<FSub(a[1], b[1]), FSub(a[2], b[2])>>
    ) : a \in {a_0}, b \in {b_0}})
VScale(a_0, k_0) ==
    The({(
    <<FMul(a[1], k), FMul(a[2], k)>>
    ) : a \in {a_0}, k \in {k_0}})
VDivS(a_0, k_0) ==
    The({(
    <<FDiv(a[1], k), FDiv(a[2], k)>>
    ) : a \in {a_0}, k \in {k_0}})
VNeg(a_0) ==
    The({(
    <<FNeg(a[1]), FNeg(a[2])>>
    ) : a \in {a_0}})
VDot(a_0, b_0) ==
    The({(
    FAdd(FMul(a[1], b[1]), FMul(a[2], b[2]))
    ) : a \in {a_0}, b \in {b_0}})
VLengthSquared(a_0) ==
    The({(
    VDot(a, a)
    ) : a \in {a_0}})

VLength(a_0) ==
    The({(
    FSqrt(VLengthSquared(a))
    ) : a \in {a_0}})
\* glam: self * self.length_recip()
VNormalize(a_0) ==
    The({(
    VScale(a, FDiv(FOne, VLength(a)))
    ) : a \in {a_0}})
VFloor(a_0) ==
    The({(
    <<FFloor(a[1]), FFloor(a[2])>>
    ) : a \in {a_0}})

MIdentity == <<Vec2(FOne, FZero), Vec2(FZero, FOne)>>
MZero == <<VZero, VZero>>
MFromCols(c0_0, c1_0) ==
    The({(
    <<c0, c1>>
    ) : c0 \in {c0_0}, c1 \in {c1_0}})
MFromDiagonal(dg_0) ==
    The({(
    <<Vec2(dg[1], FZero), Vec2(FZero, dg[2])>>
    ) : dg \in {dg_0}})
MTranspose(m_0) ==
    The({(
    <<Vec2(m[1][1], m[2][1]), Vec2(m[1][2], m[2][2])>>
    ) : m \in {m_0}})
MMulVec2(m_0, w_0) ==
    The({(
    VAdd(VScale(m[1], w[1]), VScale(m[2], w[2]))
    ) : m \in {m_0}, w \in {w_0}})
MMulMat2(a_0, b_0) ==
    The({(
    <<MMulVec2(a, b[1]), MMulVec2(a, b[2])>>
    ) : a \in {a_0}, b \in {b_0}})
MAdd(a_0, b_0) ==
    The({(
    <<VAdd(a[1], b[1]), VAdd(a[2], b[2])>>
    ) : a \in {a_0}, b \in {b_0}})
MSub(a_0, b_0) ==
    The({(
    <<VSub(a[1], b[1]), VSub(a[2], b[2])>>
    ) : a \in {a_0}, b \in {b_0}})
MScale(a_0, k_0) ==
    The({(
    <<VScale(a[1], k), VScale(a[2], k)>>
    ) : a \in {a_0}, k \in {k_0}})
MDeterminant(m_0) ==
    The({(
    FSub(FMul(m[1][1], m[2][2]), FMul(m[1][2], m[2][1]))
    ) : m \in {m_0}})
\* equality as == compares f32 values: -0.0 == 0.0
VEq(a_0, b_0) ==
    The({(
    FEq(a[1], b[1]) /\ FEq(a[2], b[2])
    ) : a \in {a_0}, b \in {b_0}})
MEq(a_0, b_0) ==
    The({(
    VEq(a[1], b[1]) /\ VEq(a[2], b[2])
    ) : a \in {a_0}, b \in {b_0}})
VClose(a_0, b_0) ==
    The({(
    FClose(a[1], b[1]) /\ FClose(a[2], b[2])
    ) : a \in {a_0}, b \in {b_0}})
VWithin(a_0, b_0, tol_0) ==
    The({(
    FWithin(a[1], b[1], tol) /\ FWithin(a[2], b[2], tol)
    ) : a \in {a_0}, b \in {b_0}, tol \in {tol_0}})

(***************************************************************************)
(* SVD2x2, shaders/src/svd.rs.                                             *)
(***************************************************************************)
\* f32::MIN_POSITIVE, 2^-126
F32_MIN_POSITIVE == F32(0, -149, 8388608)

hypot2_scaled(m_0, t_0) ==
    The({(
    FMul(m, FSqrt(FAdd(FOne, FMul(t, t))))
    ) : m \in {m_0}, t \in {t_0}})

hypot2_ordered(m_0, n_0) ==
    The({(
    IF FEq(m, FZero) THEN FZero ELSE hypot2_scaled(m, FDiv(n, m))
    ) : m \in {m_0}, n \in {n_0}})

hypot2_abs(ax_0, ay_0) ==
    The({(
    IF FGe(ax, ay) THEN hypot2_ordered(ax, ay) ELSE hypot2_ordered(ay, ax)
    ) : ax \in {ax_0}, ay \in {ay_0}})

hypot2(x_0, y_0) ==
    The({(
    hypot2_abs(FAbs(x), FAbs(y))
    ) : x \in {x_0}, y \in {y_0}})

\* The stages of svd2x2_exact below compute the intermediate values of the
\* function in the order the function computes them; each stage binds the
\* values it has computed and hands them to the next.

\* the quadratic form [c.x c.y] * (A^T A) * [c.x c.y]^T
svd_quadratic_form(alpha_0, beta_0, gamma_0, c_0) ==
    The({(
    FAdd(FAdd(FMul(alpha, FMul(c[1], c[1])),
              FMul(FMul(FInt(2), beta), FMul(c[1], c[2]))),
         FMul(gamma, FMul(c[2], c[2])))
    ) : alpha \in {alpha_0}, beta \in {beta_0}, gamma \in {gamma_0}, c \in {c_0}})

\* sign fix: det(U) >= 0 by flipping the second column of U and of V
svd_fix_sign(s1_0, s2_0, v_mat_0, u_mat_0) ==
    The({(
    IF FLt(MDeterminant(u_mat), FZero)
    THEN [u |-> MFromCols(u_mat[1], VNeg(u_mat[2])), s |-> Vec2(s1, s2),
          v |-> MFromCols(v_mat[1], VNeg(v_mat[2]))]
    ELSE [u |-> u_mat, s |-> Vec2(s1, s2), v |-> v_mat]
    ) : s1 \in {s1_0}, s2 \in {s2_0}, v_mat \in {v_mat_0}, u_mat \in {u_mat_0}})

\* re-orthonormalise U against drift
svd_orthonormalize(s1_0, s2_0, v_mat_0, u0raw_0, u1raw_0) ==
    The({(
    [u |-> MFromCols(VNormalize(u0raw),
                     VNormalize(VSub(u1raw, VScale(u0raw, VDot(u0raw, u1raw))))),
     s |-> Vec2(s1, s2),
     v |-> v_mat]
    ) : s1 \in {s1_0}, s2 \in {s2_0}, v_mat \in {v_mat_0}, u0raw \in {u0raw_0}, u1raw \in {u1raw_0}})

\* the second column of U: completed by a rotation when the matrix has rank 1
svd_second_column(s1_0, s2raw_0, v_mat_0, b_mat_0, rank1_0, u0raw_0) ==
    The({(
    The({svd_orthonormalize(s1, s2, v_mat, u0raw, u1raw) :
            s2 \in {IF rank1 THEN FZero ELSE s2raw},
            u1raw \in {IF rank1 THEN Vec2(FNeg(u0raw[2]), u0raw[1])
                       ELSE VDivS(b_mat[2], s2raw)}})
    ) : s1 \in {s1_0}, s2raw \in {s2raw_0}, v_mat \in {v_mat_0}, b_mat \in {b_mat_0}, rank1 \in {rank1_0}, u0raw \in {u0raw_0}})

\* the rank test on det(A) alone, without the tests on s2
svd_left_det_only(det_a_0, s1_0, s2raw_0, v_mat_0, b_mat_0) ==
    The({(
    The({svd_second_column(s1, s2raw, v_mat, b_mat, rank1, u0raw) :
            rank1 \in {FEq(det_a, FZero)},
            u0raw \in {IF FGt(s1, FZero) THEN VDivS(b_mat[1], s1)
                       ELSE Vec2(FOne, FZero)}})
    ) : det_a \in {det_a_0}, s1 \in {s1_0}, s2raw \in {s2raw_0}, v_mat \in {v_mat_0}, b_mat \in {b_mat_0}})

\* U = A V Sigma^-1, with the rank test on s2
svd_left(det_a_0, s1_0, s2raw_0, v_mat_0, b_mat_0) ==
    The({(
    The({svd_second_column(s1, s2raw, v_mat, b_mat, rank1, u0raw) :
            rank1 \in {\/ FEq(s2raw, FZero)
                       \/ FEq(det_a, FZero)
                       \/ FLe(s2raw, FMul(F32_MIN_POSITIVE, FInt(8)))},
            u0raw \in {IF FGt(s1, FZero) THEN VDivS(b_mat[1], s1)
                       ELSE Vec2(FOne, FZero)}})
    ) : det_a \in {det_a_0}, s1 \in {s1_0}, s2raw \in {s2raw_0}, v_mat \in {v_mat_0}, b_mat \in {b_mat_0}})

\* the singular values and B = A V, from the eigen-decomposition e of A^T A
svd_singular_values(a_0, e_0) ==
    The({(
    The({svd_left(e.det_a, s1, s2raw, e.v, b_mat) :
            s1 \in {FSqrt(e.lambda1)},
            s2raw \in {FSqrt(e.lambda2)},
            b_mat \in {MMulMat2(a, e.v)}})
    ) : a \in {a_0}, e \in {e_0}})

\* order the columns of V so that the first belongs to the larger eigenvalue
svd_order(det_a_0, lambda1_0, lambda2_0, c0_0, c1_0, d11_0, d22_0) ==
    The({(
    [det_a |-> det_a, lambda1 |-> lambda1, lambda2 |-> lambda2,
     v |-> IF FGt(d22, d11) THEN MFromCols(c1, c0) ELSE MFromCols(c0, c1)]
    ) : det_a \in {det_a_0}, lambda1 \in {lambda1_0}, lambda2 \in {lambda2_0}, c0 \in {c0_0}, c1 \in {c1_0}, d11 \in {d11_0}, d22 \in {d22_0}})

svd_right(det_a_0, alpha_0, beta_0, gamma_0, lambda1_0, lambda2_0, v0_0) ==
    The({(
    The({svd_order(det_a, lambda1, lambda2, v0, c1, d11, d22) :
            c1 \in {Vec2(FNeg(v0[2]), v0[1])},
            d11 \in {svd_quadratic_form(alpha, beta, gamma, v0)},
            d22 \in {svd_quadratic_form(alpha, beta, gamma, Vec2(FNeg(v0[2]), v0[1]))}})
    ) : det_a \in {det_a_0}, alpha \in {alpha_0}, beta \in {beta_0}, gamma \in {gamma_0}, lambda1 \in {lambda1_0}, lambda2 \in {lambda2_0}, v0 \in {v0_0}})

\* the eigenvector of lambda1: the candidate normalised, or a basis vector
svd_eigenvector(alpha_0, gamma_0, cand_0) ==
    The({(
    IF FEq(VLengthSquared(cand), FZero)
    THEN (IF FGe(alpha, gamma) THEN Vec2(FOne, FZero) ELSE Vec2(FZero, FOne))
    ELSE VNormalize(cand)
    ) : alpha \in {alpha_0}, gamma \in {gamma_0}, cand \in {cand_0}})

\* the pair taken as eigenvector of lambda1, of [beta, lambda1 - alpha] and
\* [lambda1 - gamma, beta]
svd_candidate(alpha_0, beta_0, gamma_0, lambda1_0) ==
    The({(
    IF FGt(FAbs(beta), FAbs(FSub(lambda1, alpha)))
    THEN Vec2(beta, FSub(lambda1, alpha))
    ELSE Vec2(FSub(lambda1, gamma), beta)
    ) : alpha \in {alpha_0}, beta \in {beta_0}, gamma \in {gamma_0}, lambda1 \in {lambda1_0}})

svd_eigenvalues(det_a_0, alpha_0, beta_0, gamma_0, lambda1_0) ==
    The({(
    The({svd_right(det_a, alpha, beta, gamma, lambda1, lambda2, v0) :
            lambda2 \in {FMax(FDiv(FMul(det_a, det_a),
                                   FMax(lambda1, F32_MIN_POSITIVE)), FZero)},
            v0 \in {svd_eigenvector(alpha, gamma,
                        svd_candidate(alpha, beta, gamma, lambda1))}})
    ) : det_a \in {det_a_0}, alpha \in {alpha_0}, beta \in {beta_0}, gamma \in {gamma_0}, lambda1 \in {lambda1_0}})

\* the larger eigenvalue of A^T A = [[alpha, beta], [beta, gamma]]
svd_lambda1(alpha_0, beta_0, gamma_0) ==
    The({(
    FMul(FHalf, FMax(FAdd(FAdd(alpha, gamma),
                          hypot2(FSub(alpha, gamma), FMul(FInt(2), beta))),
                     FZero))
    ) : alpha \in {alpha_0}, beta \in {beta_0}, gamma \in {gamma_0}})

svd_gram(det_a_0, alpha_0, beta_0, gamma_0) ==
    The({(
    The({svd_eigenvalues(det_a, alpha, beta, gamma, lambda1) :
            lambda1 \in {svd_lambda1(alpha, beta, gamma)}})
    ) : det_a \in {det_a_0}, alpha \in {alpha_0}, beta \in {beta_0}, gamma \in {gamma_0}})

\* the eigen-decomposition of A^T A: [det_a, lambda1, lambda2, v]
svd_entries(a11_0, a12_0, a21_0, a22_0) ==
    The({(
    The({svd_gram(det_a, alpha, beta, gamma) :
            det_a \in {FSub(FMul(a11, a22), FMul(a12, a21))},
            alpha \in {FAdd(FMul(a11, a11), FMul(a21, a21))},
            beta \in {FAdd(FMul(a11, a12), FMul(a21, a22))},
            gamma \in {FAdd(FMul(a12, a12), FMul(a22, a22))}})
    ) : a11 \in {a11_0}, a12 \in {a12_0}, a21 \in {a21_0}, a22 \in {a22_0}})

\* lines 31-123: U, the singular values and V as they are before the sign fix
svd_unsigned(a_0) ==
    The({(
    The({svd_singular_values(m, e) :
            m \in {a},
            e \in {svd_entries(a[1][1], a[2][1], a[1][2], a[2][2])}})
    ) : a \in {a_0}})

svd2x2_exact(a_0) ==
    The({(
    The({svd_fix_sign(r.s[1], r.s[2], r.v, r.u) : r \in {svd_unsigned(a)}})
    ) : a \in {a_0}})

(***************************************************************************)
(* Materials, shared/src/particles.rs.                                     *)
(***************************************************************************)
\* MaterialPod::to_material on the u8 tag
to_material(tag_0) ==
    The({(
    IF tag = 0 THEN "Fluid"
    ELSE IF tag = 1 THEN "Jelly"
    ELSE IF tag = 2 THEN "Snow"
    ELSE "panic"
    ) : tag \in {tag_0}})

(***************************************************************************)
(* ConstitutiveModel: shaders/src/p2g.rs, lines 49-92.                     *)
(***************************************************************************)
SnowClampLo == FSub(FOne, Rat(25, 1000))
SnowClampHi == FAdd(FOne, Rat(45, 10000))

\* the plasticity update with the clamping ratio inverted (new over old)
plasticity_apply_inverse(acc_0, d_0, old_sig_0, new_sig_0) ==
    The({(
    [Jp |-> FMul(acc.Jp, FDiv(new_sig, old_sig)),
     sig |-> [acc.sig EXCEPT ![d] = new_sig],
     J |-> FMul(acc.J, new_sig)]
    ) : acc \in {acc_0}, d \in {d_0}, old_sig \in {old_sig_0}, new_sig \in {new_sig_0}})

\* one pass of the loop "for d in 0..2" on the accumulator [Jp, J, sig]
plasticity_apply(acc_0, d_0, old_sig_0, new_sig_0) ==
    The({(
    [Jp |-> FMul(acc.Jp, FDiv(old_sig, new_sig)),
     sig |-> [acc.sig EXCEPT ![d] = new_sig],
     J |-> FMul(acc.J, new_sig)]
    ) : acc \in {acc_0}, d \in {d_0}, old_sig \in {old_sig_0}, new_sig \in {new_sig_0}})

PlasticityLoopBody(acc_0, d_0, material_0) ==
    The({(
    plasticity_apply(acc, d, acc.sig[d],
        IF material = "Snow"
        THEN FClamp(acc.sig[d], SnowClampLo, SnowClampHi)
        ELSE acc.sig[d])
    ) : acc \in {acc_0}, d \in {d_0}, material \in {material_0}})

\* the Lame parameters of the material, lines 56-61
lame_mu(material_0, h_0) ==
    The({(
    IF material = "Fluid" THEN FZero
    ELSE IF material = "Jelly" THEN FMul(MU_0, Rat(3, 10))
    ELSE FMul(MU_0, h)
    ) : material \in {material_0}, h \in {h_0}})

lame_lambda(material_0, h_0) ==
    The({(
    IF material = "Fluid" THEN FZero
    ELSE IF material = "Jelly" THEN FMul(LAMBDA_0, Rat(3, 10))
    ELSE FMul(LAMBDA_0, h)
    ) : material \in {material_0}, h \in {h_0}})

\* lines 90-92: the stress and the affine stress from the rebuilt F
constitutive_affine(C_0, svd_0, acc_0, F_0, stress_0) ==
    The({(
    [F |-> F,
     Jp |-> acc.Jp,
     affine_stress |-> MAdd(stress, MScale(C, P_MASS)),
     sig_in |-> svd.s,
     sig |-> acc.sig,
     J |-> acc.J]
    ) : C \in {C_0}, svd \in {svd_0}, acc \in {acc_0}, F \in {F_0}, stress \in {stress_0}})

constitutive_stress(C_0, material_0, h_0, svd_0, acc_0, F_0, rot_0) ==
    The({(
    The({constitutive_affine(C, svd, acc, F, MAdd(elastic, volumetric)) :
            elastic \in {MMulMat2(MScale(MSub(F, rot),
                                         FMul(FInt(2), lame_mu(material, h))),
                                  MTranspose(F))},
            volumetric \in {MScale(MScale(MScale(MIdentity, lame_lambda(material, h)),
                                          FSub(acc.J, FOne)),
                                   acc.J)}})
    ) : C \in {C_0}, material \in {material_0}, h \in {h_0}, svd \in {svd_0}, acc \in {acc_0}, F \in {F_0}, rot \in {rot_0}})

\* the rebuild without the Fluid branch: every material gets U diag(sig) V^T
constitutive_rebuild_elastic(C_0, material_0, h_0, svd_0, acc_0) ==
    The({(
    The({constitutive_stress(C, material, h, svd, acc, F, rot) :
            F \in {MMulMat2(MMulMat2(svd.u, MFromDiagonal(acc.sig)),
                            MTranspose(svd.v))},
            rot \in {MMulMat2(svd.u, MTranspose(svd.v))}})
    ) : C \in {C_0}, material \in {material_0}, h \in {h_0}, svd \in {svd_0}, acc \in {acc_0}})

\* lines 79-89: F rebuilt from the clamped singular values
constitutive_rebuild(C_0, material_0, h_0, svd_0, acc_0) ==
    The({(
    The({constitutive_stress(C, material, h, svd, acc, F, rot) :
            F \in {IF material = "Fluid"
                   THEN MScale(MIdentity, FSqrt(acc.J))
                   ELSE MMulMat2(MMulMat2(svd.u, MFromDiagonal(acc.sig)),
                                 MTranspose(svd.v))},
            rot \in {MMulMat2(svd.u, MTranspose(svd.v))}})
    ) : C \in {C_0}, material \in {material_0}, h \in {h_0}, svd \in {svd_0}, acc \in {acc_0}})

\* lines 67-78: the plasticity loop over the two singular values
constitutive_plasticity(C_0, Jp_old_0, material_0, h_0, svd_0) ==
    The({(
    The({constitutive_rebuild(C, material, h, svd, PlasticityLoopBody(acc, 2, material)) :
            acc \in {PlasticityLoopBody([Jp |-> Jp_old, sig |-> svd.s, J |-> FOne],
                                        1, material)}})
    ) : C \in {C_0}, Jp_old \in {Jp_old_0}, material \in {material_0}, h \in {h_0}, svd \in {svd_0}})

\* lines 52-54: the hardening h, one value for each value exp may return
hardening(Jp_old_0) ==
    The({(
    {FClamp(ex, Rat(1, 10), FInt(5)) : ex \in FExp(FMul(FInt(10), FSub(FOne, Jp_old)))}
    ) : Jp_old \in {Jp_old_0}})

\* lines 49-92 of p2g: F update, hardening, SVD, plasticity, stress.  The
\* set holds one result for each hardening; F, Jp and the singular values
\* are the same in all of them, the stress follows h (Snow only).

ConstitutiveModel(C_0, F_old_0, Jp_old_0, material_0) ==
    The({(
    {constitutive_plasticity(C, Jp_old, material, h, svd) :
        h \in hardening(Jp_old),
        svd \in {svd2x2_exact(MAdd(MIdentity, MScale(MMulMat2(C, F_old), DT)))}}
    ) : C \in {C_0}, F_old \in {F_old_0}, Jp_old \in {Jp_old_0}, material \in {material_0}})

(***************************************************************************)
(* GridIndex, shared/src/grid.rs.                                          *)
(***************************************************************************)
linear_grid_index(x_0, y_0) ==
    The({(
    y * N_GRID_X + x
    ) : x \in {x_0}, y \in {y_0}})

\* The u32 with 16-bit halves high and low (high taken modulo 2^16 after the
\* carry of low), written as the i32 of the same bits: every value of 2^31 or
\* more is negative here and is no entry of the grid either way.
Low16(i_0) ==
    The({(
    i % 65536
    ) : i \in {i_0}})
High16(i_0) ==
    The({(
    (i - Low16(i)) \div 65536
    ) : i \in {i_0}})
WrappedU32(high_0, low_0) ==
    The({(
    IF Low16(high + (low \div 65536)) >= 32768
    THEN (Low16(high + (low \div 65536)) - 65536) * 65536 + Low16(low)
    ELSE Low16(high + (low \div 65536)) * 65536 + Low16(low)
    ) : high \in {high_0}, low \in {low_0}})

\* the index p2g computes for a stencil cell that passed its bounds check:
\* idx.y * N_GRID_X + idx.x in wrapping u32 arithmetic
linear_grid_index_uvec(idx_0) ==
    The({(
    WrappedU32(High16(idx[2]) * N_GRID_X + High16(idx[1]),
               Low16(idx[2]) * N_GRID_X + Low16(idx[1]))
    ) : idx \in {idx_0}})

STENCIL_OFFSETS ==
    << <<-1, -1>>, <<0, -1>>, <<1, -1>>,
       <<-1, 0>>, <<0, 0>>, <<1, 0>>,
       <<-1, 1>>, <<0, 1>>, <<1, 1>> >>

as_ivec2(w_0) ==
    The({(
    <<f32_as_i32(w[1]), f32_as_i32(w[2])>>
    ) : w \in {w_0}})

\* i32 addition of the shader build: two's complement wrap-around
i32_add(a_0, b_0) ==
    The({(
    IF b > 0 /\ a > I32_MAX - b THEN I32_MIN + ((b - (I32_MAX - a)) - 1)
    ELSE IF b < 0 /\ a < I32_MIN - b THEN I32_MAX - (((I32_MIN - b) - a) - 1)
    ELSE a + b
    ) : a \in {a_0}, b \in {b_0}})

ivec2_add(a_0, b_0) ==
    The({(
    <<i32_add(a[1], b[1]), i32_add(a[2], b[2])>>
    ) : a \in {a_0}, b \in {b_0}})
ivec2_as_vec2(a_0) ==
    The({(
    <<FInt(a[1]), FInt(a[2])>>
    ) : a \in {a_0}})

(***************************************************************************)
(* P2GTransfer: shaders/src/p2g.rs, lines 98-128.                          *)
(***************************************************************************)
containing_cell(xp_0) ==
    The({(
    VFloor(VScale(xp, INV_DX))
    ) : xp \in {xp_0}})
containing_idx(xp_0) ==
    The({(
    as_ivec2(containing_cell(xp))
    ) : xp \in {xp_0}})
containing_center(xp_0) ==
    The({(
    VScale(VAdd(containing_cell(xp), Vec2(FHalf, FHalf)), DX)
    ) : xp \in {xp_0}})

\* the neighbour cell of stencil slot o (1..9)
GridIdx(xp_0, o_0) ==
    The({(
    ivec2_add(containing_idx(xp), STENCIL_OFFSETS[o])
    ) : xp \in {xp_0}, o \in {o_0}})

\* the bounds test with the comparisons against 0 left out
InBoundsUpperOnly(grid_idx_0) ==
    The({(
    ~(\/ grid_idx[1] >= N_GRID_X
      \/ grid_idx[2] >= N_GRID_X)
    ) : grid_idx \in {grid_idx_0}})

\* the negation of the test that makes the loop "continue"
InBounds(grid_idx_0) ==
    The({(
    ~(\/ grid_idx[1] < 0
      \/ grid_idx[2] < 0
      \/ grid_idx[1] >= N_GRID_X
      \/ grid_idx[2] >= N_GRID_X)
    ) : grid_idx \in {grid_idx_0}})

\* the first stencil slot from o on that passes the bounds check; 10 when the
\* loop has run out
RECURSIVE NextSlot(_, _)
NextSlot(xp_0, o_0) ==
    The({(
    IF o > 9 THEN 10
    ELSE IF InBounds(GridIdx(xp, o)) THEN o
    ELSE NextSlot(xp, o + 1)
    ) : xp \in {xp_0}, o \in {o_0}})

\* the cell centre taken relative to the particle
GridPosFromParticle(xp_0, o_0) ==
    The({(
    VSub(VAdd(containing_center(xp), VScale(ivec2_as_vec2(STENCIL_OFFSETS[o]), DX)), xp)
    ) : xp \in {xp_0}, o \in {o_0}})
GridPos(xp_0, o_0) ==
    The({(
    VAdd(containing_center(xp), VScale(ivec2_as_vec2(STENCIL_OFFSETS[o]), DX))
    ) : xp \in {xp_0}, o \in {o_0}})
Weight(xp_0, o_0) ==
    The({(
    quadratic_weight_2d(VSub(xp, GridPos(xp, o)))
    ) : xp \in {xp_0}, o \in {o_0}})
MassAdd(xp_0, o_0) ==
    The({(
    FMul(Weight(xp, o), P_MASS)
    ) : xp \in {xp_0}, o \in {o_0}})
\* the momentum addend without the particle mass on the velocity
VAddendUnweighted(xp_0, vp_0, affine_stress_0, o_0) ==
    The({(
    VScale(VAdd(vp, MMulVec2(affine_stress, GridPos(xp, o))), Weight(xp, o))
    ) : xp \in {xp_0}, vp \in {vp_0}, affine_stress \in {affine_stress_0}, o \in {o_0}})

VAddend(xp_0, vp_0, affine_stress_0, o_0) ==
    The({(
    VScale(VAdd(VScale(vp, P_MASS), MMulVec2(affine_stress, GridPos(xp, o))), Weight(xp, o))
    ) : xp \in {xp_0}, vp \in {vp_0}, affine_stress \in {affine_stress_0}, o \in {o_0}})

\* p2g.rs lines 104-123: the locals of the loop iteration on stencil slot o,
\* all computed before the first atomic add of the iteration
StencilLocals(xp_0, vp_0, affine_stress_0, o_0) ==
    The({(
    IF o > 9 THEN [index |-> 0, mass_add |-> FZero, v_add |-> VZero]
    ELSE [index |-> linear_grid_index_uvec(GridIdx(xp, o)),
          mass_add |-> MassAdd(xp, o),
          v_add |-> VAddend(xp, vp, affine_stress, o)]
    ) : xp \in {xp_0}, vp \in {vp_0}, affine_stress \in {affine_stress_0}, o \in {o_0}})

\* spirv_std::arch::atomic_f_add: one indivisible read-add-write of an f32
atomic_f_add(dst_0, val_0) ==
    The({(
    FAdd(dst, val)
    ) : dst \in {dst_0}, val \in {val_0}})

\* the pair of scalar atomic adds of shaders/src/util.rs, one component each
atomic_f_add_vec2_x(dst_0, val_0) ==
    The({(
    <<atomic_f_add(dst[1], val[1]), dst[2]>>
    ) : dst \in {dst_0}, val \in {val_0}})
\* the y component stored instead of added
atomic_f_add_vec2_y_store(dst_0, val_0) ==
    The({(
    <<dst[1], val[2]>>
    ) : dst \in {dst_0}, val \in {val_0}})
atomic_f_add_vec2_y(dst_0, val_0) ==
    The({(
    <<dst[1], atomic_f_add(dst[2], val[2])>>
    ) : dst \in {dst_0}, val \in {val_0}})

\* the store of F landing on the neighbouring particle's entry
StoreFNext(pm_0, p_0, F_0) ==
    The({(
    [pm EXCEPT ![(p + 1) % Cardinality(DOMAIN pm)].F = F]
    ) : pm \in {pm_0}, p \in {p_0}, F \in {F_0}})

\* "save updated particle data", lines 94-96
StoreF(pm_0, p_0, F_0) ==
    The({(
    [pm EXCEPT ![p].F = F]
    ) : pm \in {pm_0}, p \in {p_0}, F \in {F_0}})

StoreJ(pd_0, p_0, Jp_0) ==
    The({(
    [pd EXCEPT ![p] = [J |-> Jp]]
    ) : pd \in {pd_0}, p \in {p_0}, Jp \in {Jp_0}})

(***************************************************************************)
(* The other kernels of the chain, shaders/src/lib.rs.                     *)
(***************************************************************************)
\* shared::add_update on a Vec2
add_update(a_0, b_0) ==
    The({(
    VAdd(a, b)
    ) : a \in {a_0}, b \in {b_0}})

\* A u32 is the pair <<high, low>> of its 16-bit halves.
U32(n_0) ==
    The({(
    <<n \div 65536, n % 65536>>
    ) : n \in {n_0}})
U32_MAX == <<65535, 65535>>

\* a u32 addition that stops at u32::MAX
add_update_u32_saturating(a_0, b_0) ==
    The({(
    IF a[1] + b[1] + (a[2] + b[2]) \div 65536 >= 65536 THEN U32_MAX
    ELSE <<a[1] + b[1] + (a[2] + b[2]) \div 65536, (a[2] + b[2]) % 65536>>
    ) : a \in {a_0}, b \in {b_0}})

\* shared::add_update on a u32 in the release build of the kernels: the
\* 32-bit sum, the carry out of bit 31 dropped
add_update_u32(a_0, b_0) ==
    The({(
    <<(a[1] + b[1] + (a[2] + b[2]) \div 65536) % 65536, (a[2] + b[2]) % 65536>>
    ) : a \in {a_0}, b \in {b_0}})

wrap_upper(c1_0) ==
    The({(
    IF FGe(c1, FOne) THEN FSub(c1, FOne) ELSE c1
    ) : c1 \in {c1_0}})
wrap_coord(c_0) ==
    The({(
    wrap_upper(IF FLt(c, FZero) THEN FAdd(c, FOne) ELSE c)
    ) : c \in {c_0}})

\* the body of one invocation of clear_grid_mass, on the cell it indexes
clear_grid_mass(cell_0) ==
    The({(
    [cell EXCEPT !.mass = FZero]
    ) : cell \in {cell_0}})

(***************************************************************************)
(* Dispatch sizes, shared/src/lib.rs.                                      *)
(***************************************************************************)
WORKGROUP_SIZE == 64
GRID_WORKGROUP_SIZE == <<8, 8>>

div_ceil_u32(n_0, d_0) ==
    The({(
    (n \div d) + (IF (n % d) # 0 THEN 1 ELSE 0)
    ) : n \in {n_0}, d \in {d_0}})
num_workgroups_1d(num_elements_0) ==
    The({(
    <<div_ceil_u32(num_elements, WORKGROUP_SIZE), 1, 1>>
    ) : num_elements \in {num_elements_0}})
num_workgroups_2d(num_elts_x_0, num_elts_y_0) ==
    The({(
    <<div_ceil_u32(num_elts_x, GRID_WORKGROUP_SIZE[1]),
      div_ceil_u32(num_elts_y, GRID_WORKGROUP_SIZE[2]), 1>>
    ) : num_elts_x \in {num_elts_x_0}, num_elts_y \in {num_elts_y_0}})

(***************************************************************************)
(* State.                                                                  *)
(***************************************************************************)
VARIABLES
    \* WeightFunction evaluation: the argument pair and the results
    wt, wres,
    \* ConstitutiveModel iteration on one particle
    cm,
    \* particle store: positions, velocities, (C, F), plastic J, material tag
    xs, vs, particle_matrices, particle_deformation, particle_material,
    \* grid buffer, indexed by linear index
    grid,
    \* index of the chain entry that runs next (or is running), executions done
    cur, frame,
    \* the P2G invocations of the running pass: position and locals
    inv,
    \* the grid locations the running P2G pass has added to
    writes,
    \* a 1-D dispatch: element count, invocations launched, their count, their ids
    disp,
    \* the material tags from host data to the per-particle step
    mat,
    \* one call of svd2x2_exact: the argument and what the call returned
    sv,
    \* a VulkanoComputeChain of the integration tests: its buffers and progress
    pass,
    \* the bitonic sort: the slice, the padded working data, the position in
    \* the stage/pass loops and the threads of the running pass
    bit

wvars == <<wt, wres>>
pvars == <<xs, vs, particle_matrices, particle_deformation, particle_material>>
gvars == <<grid, cur, frame, inv, writes>>
vars == <<wt, wres, cm, xs, vs, particle_matrices, particle_deformation,
          particle_material, grid, cur, frame, inv, writes, disp, mat, sv,
          pass, bit>>
\* the state of the kernels and functions exercised on their own
kvars == <<sv, pass, bit>>

Particles == 0..(N_PARTICLES - 1)
Cells == 0..(N_GRID_X * N_GRID_X - 1)

(***************************************************************************)
(* Idle values of the parts a specification does not exercise.             *)
(***************************************************************************)
InvReady ==
    [pc |-> "ready", o |-> 0, k |-> 0, xp |-> VZero, vp |-> VZero,
     affine_stress |-> MZero, index |-> 0, mass_add |-> FZero, v_add |-> VZero]

WeightIdle ==
    /\ wt = VZero
    /\ wres = [done |-> FALSE, wx |-> FZero, wy |-> FZero, w2 |-> FZero]

ConstitutiveIdle ==
    cm = [C |-> MZero, F |-> MIdentity, Jp |-> FOne, material |-> 0, n |-> 0,
          sig_in |-> VZero, sig |-> VZero, Jp_before |-> FOne]

ChainIdle ==
    /\ xs = [p \in Particles |-> VZero]
    /\ vs = [p \in Particles |-> VZero]
    /\ particle_matrices = [p \in Particles |-> [C |-> MZero, F |-> MIdentity]]
    /\ particle_deformation = [p \in Particles |-> [J |-> FOne]]
    /\ particle_material = [p \in Particles |-> 0]
    /\ grid = [i \in Cells |-> [v |-> VZero, mass |-> FZero]]
    /\ cur = 0
    /\ frame = 0
    /\ inv = [p \in Particles |-> InvReady]
    /\ writes = {}

DispatchIdle == disp = [n |-> 0, launched |-> 0, total |-> 0, ids |-> {}]

MaterialIdle ==
    mat = [data |-> [p \in Particles |-> 0], phase |-> "host",
           pc |-> [p \in Particles |-> "ready"]]

SvdNone == [u |-> MIdentity, s |-> VZero, v |-> MIdentity]
SvdIdle == sv = [a |-> MZero, done |-> FALSE, pre |-> SvdNone, out |-> SvdNone]

\* the element indices of the buffers of a test chain
Elems == 0..(PassElems - 1)
NoBuffers ==
    [a |-> [i \in Elems |-> U32(0)], b |-> [i \in Elems |-> U32(0)],
     c |-> [i \in Elems |-> U32(0)], d |-> [i \in Elems |-> U32(0)],
     x |-> [i \in Elems |-> VZero], v |-> [i \in Elems |-> VZero]]
PassIdle == pass = [chain |-> << >>, cur |-> 0, todo |-> {}, bufs |-> NoBuffers,
                    start |-> NoBuffers]

BitonicIdle ==
    bit = [phase |-> "idle", input |-> << >>, order |-> "Ascending",
           data |-> << >>, stage |-> 0, pass |-> 0, th |-> << >>,
           touched |-> {}, out |-> << >>]

KernelsIdle == SvdIdle /\ PassIdle /\ BitonicIdle

(***************************************************************************)
(* WeightFunction as a state machine: evaluate it on an argument pair.     *)
(***************************************************************************)
WeightArgs == {Rat(k, WeightArgDen) : k \in (-WeightArgMax)..WeightArgMax}

WeightInit ==
    /\ wt \in WeightArgs \X WeightArgs
    /\ wres = [done |-> FALSE, wx |-> FZero, wy |-> FZero, w2 |-> FZero]
    /\ ConstitutiveIdle
    /\ ChainIdle
    /\ DispatchIdle
    /\ MaterialIdle
    /\ KernelsIdle

EvalWeight ==
    /\ ~wres.done
    /\ wres' = [done |-> TRUE,
                wx |-> quadratic_weight(wt[1]),
                wy |-> quadratic_weight(wt[2]),
                w2 |-> quadratic_weight_2d(wt)]
    /\ UNCHANGED <<wt, cm, pvars, gvars, disp, mat, kvars>>

SpecWeight == WeightInit /\ [][EvalWeight]_vars

\* the weight as the specification states it, on |t|
WeightFormula(t) ==
    LET a == FAbs(t)
    IN IF FLt(a, FHalf) THEN FSub(Rat(3, 4), FMul(t, t))
       ELSE IF FLt(a, Rat(3, 2))
            THEN FMul(FHalf, FMul(FSub(Rat(3, 2), a), FSub(Rat(3, 2), a)))
            ELSE FZero

(* C4: for every t, quadratic_weight(t) is 0.75 - t^2 for |t| < 0.5,          *)
(* 0.5 (1.5 - |t|)^2 for 0.5 <= |t| < 1.5 and 0 otherwise, and so              *)
(* quadratic_weight(t) = quadratic_weight(-t).                                *)
C4_WeightIsTheEvenBSpline ==
    wres.done =>
        /\ FClose(wres.wx, WeightFormula(wt[1]))
        /\ FEq(wres.wx, quadratic_weight(FNeg(wt[1])))

(***************************************************************************)
(* ConstitutiveModel as a state machine: one particle, updated once per    *)
(* step.  No kernel of the chain writes C, which stays as it was set up.   *)
(***************************************************************************)
\* entries of the velocity-gradient matrices C the kernel is run on; with
\* DT = 1e-4 an entry of -10000 maps a unit stretch of F onto 0
AffineEntries == {FInt(-10000), FInt(-5000), FZero, FInt(5000)}
AffineVelocities ==
    {MFromDiagonal(Vec2(c1, c2)) : c1 \in AffineEntries, c2 \in AffineEntries}
MaterialTags == {0, 1, 2}

ConstitutiveInit ==
    /\ cm \in [C : AffineVelocities, F : {MIdentity}, Jp : {FOne},
               material : MaterialTags, n : {0}, sig_in : {VZero}, sig : {VZero},
               Jp_before : {FOne}]
    /\ WeightIdle
    /\ ChainIdle
    /\ DispatchIdle
    /\ MaterialIdle
    /\ KernelsIdle

\* the particle after the update that returned res
UpdatedParticle(res) ==
    [C |-> cm.C, F |-> res.F, Jp |-> res.Jp, material |-> cm.material,
     n |-> cm.n + 1, sig_in |-> res.sig_in, sig |-> res.sig, Jp_before |-> cm.Jp]

ConstitutiveStep ==
    /\ cm.n < MaxSteps
    /\ \E res \in ConstitutiveModel(cm.C, cm.F, cm.Jp, to_material(cm.material)) :
          cm' = UpdatedParticle(res)
    /\ UNCHANGED <<wvars, pvars, gvars, disp, mat, kvars>>

SpecConstitutive == ConstitutiveInit /\ [][ConstitutiveStep]_vars

(* C8: plastic_J > 0 holds for every particle of every material after every   *)
(* ConstitutiveModel update, also when the updated F has a singular value 0.  *)
C8_PlasticJPositive == FGt(cm.Jp, FZero)

\* J_total of the last update: 1.0 times the two (clamped) singular values
JTotal == FMul(FMul(FOne, cm.sig[1]), cm.sig[2])

(* C13: one update of a Fluid particle with C = 0 and F = identity leaves F   *)
(* an isotropic scale matrix, both diagonal entries sqrt(J_total) and both    *)
(* off-diagonal entries zero, and leaves plastic_J as it was before; the      *)
(* isotropic form holds for every updated Fluid particle.                     *)
C13_FluidIsotropicAndJpUnchanged ==
    (to_material(cm.material) = "Fluid" /\ cm.n >= 1) =>
        /\ FEq(cm.F[1][1], FSqrt(JTotal))
        /\ FEq(cm.F[2][2], FSqrt(JTotal))
        /\ FEq(cm.F[1][2], FZero)
        /\ FEq(cm.F[2][1], FZero)
        /\ cm.C = MZero =>
              /\ FEq(JTotal, FOne)
              /\ MEq(cm.F, MIdentity)
              /\ FEq(cm.Jp, cm.Jp_before)

\* a Fluid particle with C = 0 after its first update from F = identity
C13_Witness ==
    /\ to_material(cm.material) = "Fluid"
    /\ cm.C = MZero
    /\ cm.n = 1
    /\ VEq(cm.sig_in, Vec2(FOne, FOne))
    /\ FEq(cm.Jp, FOne)

\* the particle is Snow, was updated, and singular value d of the updated F
\* was below the lower clamp bound 1 - 2.5e-2
SnowCompressed(d) ==
    /\ to_material(cm.material) = "Snow"
    /\ cm.n >= 1
    /\ FLt(cm.sig_in[d], SnowClampLo)

invoc_spec(name, buffers, kernel) ==
    [name |-> name, buffers |-> buffers, kernel |-> kernel]

\* the entries of the chain of main.rs
AdderAB == invoc_spec("adder_ab", <<"a", "b">>, "adder")
StepParticlesEntry(k) ==
    invoc_spec(IF k = 0 THEN "step_particles_0" ELSE IF k = 1 THEN "step_particles_1"
               ELSE IF k = 2 THEN "step_particles_2" ELSE "step_particles_3",
               <<"x", "v">>, "step_particles")
WrapParticlesEntry == invoc_spec("wrap_particles", <<"x">>, "wrap_particles")
ClearGridEntry == invoc_spec("clear_grid", <<"grid">>, "clear_grid")
P2GEntry == invoc_spec("p2g", <<"x", "v", "grid">>, "p2g::p2g")

invocation_chain_clear_first ==
    << AdderAB, ClearGridEntry, StepParticlesEntry(0), StepParticlesEntry(1),
       StepParticlesEntry(2), StepParticlesEntry(3), WrapParticlesEntry, P2GEntry >>
invocation_chain ==
    << AdderAB, StepParticlesEntry(0), StepParticlesEntry(1), StepParticlesEntry(2),
       StepParticlesEntry(3), WrapParticlesEntry, ClearGridEntry, P2GEntry >>

\* wg_1d and wg_2d of main.rs: both are computed from the particle count
wg_1d == num_workgroups_1d(N_PARTICLES)
wg_2d == num_workgroups_2d(N_PARTICLES, N_PARTICLES)

\* the global invocation ids of a 2-D dispatch of wg_2d with threads(8, 8)
GridInvocations ==
    {<<x, y>> : x \in 0..(wg_2d[1] * GRID_WORKGROUP_SIZE[1] - 1),
                y \in 0..(wg_2d[2] * GRID_WORKGROUP_SIZE[2] - 1)}

\* the grid entries the clear_grid dispatch indexes; an index beyond the
\* buffer fails the slice bounds check and that invocation writes nothing
ClearedIndices == {linear_grid_index(id[1], id[2]) : id \in GridInvocations} \cap Cells

\* main.rs lines 253-258: the position of particle i at the start of a run
StartPosition(i) ==
    Vec2(FMul(FAdd(FInt(5 * i), FHalf), DX),
         FMul(FAdd(FHalf, FMul(FInt(5), FInt(i \div MATERIAL_GROUP_SIZE))), DX))
\* main.rs lines 260-262: the velocity of every particle at the start
StartVelocity == Vec2(Rat(1, 1000000), FZero)

\* ParticleMatrices::new() and ParticleDeformation::new()
ParticleMatrices_new == [C |-> MZero, F |-> MIdentity]
ParticleDeformation_new == [J |-> FOne]
\* the material tag of a particle store that is allocated zeroed
ZeroedMaterial == 0

ZeroGrid == [i \in Cells |-> [v |-> VZero, mass |-> FZero]]

Init ==
    /\ xs = [p \in Particles |-> StartPosition(p)]
    /\ vs = [p \in Particles |-> StartVelocity]
    /\ particle_matrices = [p \in Particles |-> ParticleMatrices_new]
    /\ particle_deformation = [p \in Particles |-> ParticleDeformation_new]
    /\ particle_material = [p \in Particles |-> ZeroedMaterial]
    /\ grid = ZeroGrid
    /\ cur = 1
    /\ frame = 0
    /\ inv = [p \in Particles |-> InvReady]
    /\ writes = {}
    /\ WeightIdle
    /\ ConstitutiveIdle
    /\ DispatchIdle
    /\ MaterialIdle
    /\ KernelsIdle

Others == <<wt, wres, cm, disp, mat, kvars>>

\* adder works on the buffers a and b only
RunAdder ==
    /\ cur >= 1 /\ cur <= Len(invocation_chain)
    /\ invocation_chain[cur].kernel = "adder"
    /\ frame < MaxSteps
    /\ cur' = cur + 1
    /\ UNCHANGED <<pvars, grid, frame, inv, writes, Others>>

\* one step_particles dispatch: every invocation i < N does x[i] += v[i]
RunStepParticles ==
    /\ cur >= 1 /\ cur <= Len(invocation_chain)
    /\ invocation_chain[cur].kernel = "step_particles"
    /\ xs' = [p \in DOMAIN xs |-> add_update(xs[p], vs[p])]
    /\ cur' = cur + 1
    /\ UNCHANGED <<vs, particle_matrices, particle_deformation, particle_material,
                   grid, frame, inv, writes, Others>>

RunWrapParticles ==
    /\ cur >= 1 /\ cur <= Len(invocation_chain)
    /\ invocation_chain[cur].kernel = "wrap_particles"
    /\ xs' = [p \in DOMAIN xs |-> <<wrap_coord(xs[p][1]), wrap_coord(xs[p][2])>>]
    /\ cur' = cur + 1
    /\ UNCHANGED <<vs, particle_matrices, particle_deformation, particle_material,
                   grid, frame, inv, writes, Others>>

\* the grid after the clear_grid dispatch on grid g
ClearedGrid(g) ==
    [i \in Cells |-> IF i \in ClearedIndices THEN clear_grid_mass(g[i]) ELSE g[i]]

\* the clear_grid dispatch: one clear_grid_mass invocation per id of wg_2d
RunClearGrid ==
    /\ cur >= 1 /\ cur <= Len(invocation_chain)
    /\ invocation_chain[cur].kernel = "clear_grid"
    /\ grid' = ClearedGrid(grid)
    /\ cur' = cur + 1
    /\ UNCHANGED <<pvars, frame, inv, writes, Others>>

P2GRunning == cur = Len(invocation_chain) /\ invocation_chain[cur].kernel = "p2g::p2g"

\* p2g.rs lines 41-102 of invocation p: load the particle, update F and
\* plastic_J, store them, and enter the stencil loop at its first cell that
\* passes the bounds check
P2GStore(p, xp, vp, res, o, loc) ==
    /\ particle_matrices' = StoreF(particle_matrices, p, res.F)
    /\ particle_deformation' = StoreJ(particle_deformation, p, res.Jp)
    /\ inv' = [inv EXCEPT ![p] =
                 [pc |-> IF o > 9 THEN "done" ELSE "scatter", o |-> o, k |-> 0,
                  xp |-> xp, vp |-> vp, affine_stress |-> res.affine_stress,
                  index |-> loc.index, mass_add |-> loc.mass_add,
                  v_add |-> loc.v_add]]

\* the entry of a particle array that invocation p indexes: arr[p], p = id.x
ParticleAtNext(arr, p) == arr[(p + 1) % Cardinality(DOMAIN arr)]
ParticleAt(arr, p) == arr[p]

\* what invocation p computes from the particle store (lines 42-93)
P2GOwn(p) ==
    ConstitutiveModel(ParticleAt(particle_matrices, p).C,
                      ParticleAt(particle_matrices, p).F,
                      ParticleAt(particle_deformation, p).J,
                      to_material(ParticleAt(particle_material, p)))

P2GLoad(p) ==
    /\ P2GRunning
    /\ inv[p].pc = "ready"
    /\ \E res \in P2GOwn(p), o \in {NextSlot(ParticleAt(xs, p), 1)} :
          \E loc \in {StencilLocals(ParticleAt(xs, p), ParticleAt(vs, p),
                                    res.affine_stress, o)} :
             P2GStore(p, ParticleAt(xs, p), ParticleAt(vs, p), res, o, loc)
    /\ UNCHANGED <<xs, vs, particle_material, grid, cur, frame, writes, Others>>

\* the same add held back until every other invocation has finished
P2GAtomicAddAfterOthers(p) ==
    /\ \A q \in DOMAIN inv \ {p} : inv[q].pc = "done"
    /\ P2GRunning
    /\ inv[p].pc = "scatter"
    /\ \E nxt \in {IF inv[p].k < 2 THEN inv[p].o
                                    ELSE NextSlot(inv[p].xp, inv[p].o + 1)} :
       \E loc \in {IF inv[p].k < 2
                   THEN [index |-> inv[p].index, mass_add |-> inv[p].mass_add,
                         v_add |-> inv[p].v_add]
                   ELSE StencilLocals(inv[p].xp, inv[p].vp,
                                      inv[p].affine_stress, nxt)} :
          /\ grid' =
               IF inv[p].index \notin Cells THEN grid
               ELSE IF inv[p].k = 0
                    THEN [grid EXCEPT ![inv[p].index].mass =
                            atomic_f_add(@, inv[p].mass_add)]
               ELSE IF inv[p].k = 1
                    THEN [grid EXCEPT ![inv[p].index].v =
                            atomic_f_add_vec2_x(@, inv[p].v_add)]
               ELSE [grid EXCEPT ![inv[p].index].v =
                       atomic_f_add_vec2_y(@, inv[p].v_add)]
          /\ writes' = writes \cup {[p |-> p, o |-> inv[p].o, index |-> inv[p].index]}
          /\ inv' = [inv EXCEPT ![p].k = IF inv[p].k < 2 THEN inv[p].k + 1 ELSE 0,
                                ![p].o = nxt,
                                ![p].pc = IF nxt > 9 THEN "done" ELSE "scatter",
                                ![p].index = loc.index,
                                ![p].mass_add = loc.mass_add,
                                ![p].v_add = loc.v_add]
    /\ UNCHANGED <<pvars, cur, frame, Others>>

\* one atomic add of invocation p: lines 126-127 issue three per stencil cell,
\* on mass, v.x and v.y in that order (k = 0, 1, 2), from the locals of the
\* iteration; after the third the loop moves to the next cell inside the grid
P2GAtomicAdd(p) ==
    /\ P2GRunning
    /\ inv[p].pc = "scatter"
    /\ \E nxt \in {IF inv[p].k < 2 THEN inv[p].o
                                    ELSE NextSlot(inv[p].xp, inv[p].o + 1)} :
       \E loc \in {IF inv[p].k < 2
                   THEN [index |-> inv[p].index, mass_add |-> inv[p].mass_add,
                         v_add |-> inv[p].v_add]
                   ELSE StencilLocals(inv[p].xp, inv[p].vp,
                                      inv[p].affine_stress, nxt)} :
          /\ grid' =
               IF inv[p].index \notin Cells THEN grid
               ELSE IF inv[p].k = 0
                    THEN [grid EXCEPT ![inv[p].index].mass =
                            atomic_f_add(@, inv[p].mass_add)]
               ELSE IF inv[p].k = 1
                    THEN [grid EXCEPT ![inv[p].index].v =
                            atomic_f_add_vec2_x(@, inv[p].v_add)]
               ELSE [grid EXCEPT ![inv[p].index].v =
                       atomic_f_add_vec2_y(@, inv[p].v_add)]
          /\ writes' = writes \cup {[p |-> p, o |-> inv[p].o, index |-> inv[p].index]}
          /\ inv' = [inv EXCEPT ![p].k = IF inv[p].k < 2 THEN inv[p].k + 1 ELSE 0,
                                ![p].o = nxt,
                                ![p].pc = IF nxt > 9 THEN "done" ELSE "scatter",
                                ![p].index = loc.index,
                                ![p].mass_add = loc.mass_add,
                                ![p].v_add = loc.v_add]
    /\ UNCHANGED <<pvars, cur, frame, Others>>

\* execute() returns once the fence signals: every invocation has finished
FinishExecute ==
    /\ P2GRunning
    /\ \A p \in DOMAIN inv : inv[p].pc = "done"
    /\ frame' = frame + 1
    /\ cur' = 1
    /\ inv' = [p \in DOMAIN inv |-> InvReady]
    /\ writes' = {}
    /\ UNCHANGED <<pvars, grid, Others>>

Next ==
    \/ RunAdder
    \/ RunStepParticles
    \/ RunWrapParticles
    \/ RunClearGrid
    \/ \E p \in Particles : P2GLoad(p)
    \/ \E p \in Particles : P2GAtomicAdd(p)
    \/ FinishExecute

Spec == Init /\ [][Next]_vars

(***************************************************************************)
(* One step on the grid, the chain entries clear_grid and p2g, run on      *)
(* particle buffers and grids other than those main.rs starts from: the    *)
(* two kernels take any particle store and any grid.                       *)
(***************************************************************************)
StepSlots == 0..(StepParticles - 1)

\* the centre of cell k along one axis, (k + 0.5) * DX
CellMid(k) == FMul(FAdd(FInt(k), FHalf), DX)
\* a multiple of DX
Cells_f(n, d) == FMul(Rat(n, d), DX)

\* the particle as the buffers hold it
Preset(x, v, Cd, material) ==
    [x |-> x, v |-> v, C |-> MFromDiagonal(Vec2(Cd, Cd)), J |-> FOne,
     material |-> material]

\* The particles the step is run on.  Preset 1 and 2 lie off the cell centres
\* and share stencil cells with each other, 3 lies beyond the grid and is
\* compressed, 4 is on an interior cell centre, 5 shares a stencil cell with
\* 4, 6 and 9 are at an infinite position, 7 lies across the lower grid edge
\* and is compressed, 8 is at a NaN, 10 is snow inside the grid that has been
\* deformed before (plastic_J is not 1, so the hardening is not exp(0)) and
\* is compressed.
ParticlePresets ==
    << Preset(Vec2(Cells_f(97, 10), Cells_f(83, 10)),
              Vec2(Cells_f(-1, 4), Rat(1, 1000000)), FZero, 2),
       Preset(Vec2(Cells_f(83, 10), Cells_f(97, 10)),
              Vec2(Rat(1, 1000000), Cells_f(1, 3)), FZero, 1),
       Preset(Vec2(CellMid(3), Rat(9, 2)),
              VZero, FInt(-5000), 2),
       Preset(Vec2(CellMid(2), CellMid(6)),
              Vec2(Cells_f(1, 4), Cells_f(-1, 4)), FZero, 1),
       Preset(Vec2(CellMid(4), CellMid(4)),
              Vec2(Cells_f(1, 4), Cells_f(1, 4)), FZero, 0),
       Preset(Vec2(PosInf, CellMid(2)),
              VZero, FZero, 1),
       Preset(Vec2(Cells_f(-1, 2), CellMid(0)),
              VZero, FInt(-5000), 0),
       Preset(Vec2(NaN, CellMid(0)),
              Vec2(Cells_f(1, 4), FZero), FZero, 0),
       Preset(Vec2(CellMid(2), NegInf),
              VZero, FZero, 0),
       [Preset(Vec2(CellMid(6), CellMid(2)),
               Vec2(FZero, Cells_f(-1, 4)), FInt(-5000), 2) EXCEPT !.J = Rat(17, 16)] >>

Scenes == 0..(Len(ParticlePresets) - 1)
PresetOf(s, p) == ParticlePresets[((s + p) % Len(ParticlePresets)) + 1]

\* the stencil offsets of a particle at xp whose cell is c and inside the grid
OffsetsInto(xp, c) ==
    {o \in 1..9 : /\ InBounds(GridIdx(xp, o))
                  /\ linear_grid_index_uvec(GridIdx(xp, o)) = c}

\* A grid as an earlier step leaves it: the P2G sums of one particle with
\* C = 0 and the start velocity on the centre of a cell that the clear_grid
\* dispatch does not reach.
PriorPosition == Vec2(CellMid(N_GRID_X - 2), CellMid(N_GRID_X - 2))
PriorEntry(xp, S) ==
    IF S = {} THEN [v |-> VZero, mass |-> FZero]
    ELSE [v |-> VAdd(VZero, VAddend(xp, StartVelocity, MZero, The(S))),
          mass |-> FAdd(FZero, MassAdd(xp, The(S)))]
PriorCell(xp, c) == PriorEntry(xp, OffsetsInto(xp, c))
PriorGrid == [c \in Cells |-> PriorCell(PriorPosition, c)]

\* the grid the step starts on: zeroed in the step numbered 0, used otherwise
StartGrid(f) == IF f = 0 THEN ZeroGrid ELSE PriorGrid

\* the position of the clear in the chain
ClearEntry == CHOOSE i \in 1..Len(invocation_chain) : invocation_chain[i].kernel = "clear_grid"

StepInit ==
    /\ \E s \in Scenes : \E store \in {[p \in StepSlots |-> PresetOf(s, p)]} :
         /\ xs = [p \in StepSlots |-> store[p].x]
         /\ vs = [p \in StepSlots |-> store[p].v]
         /\ particle_matrices =
              [p \in StepSlots |-> [C |-> store[p].C, F |-> MIdentity]]
         /\ particle_deformation = [p \in StepSlots |-> [J |-> store[p].J]]
         /\ particle_material = [p \in StepSlots |-> store[p].material]
    /\ frame \in {0, 1}
    /\ grid = StartGrid(frame)
    /\ cur = ClearEntry
    /\ inv = [p \in StepSlots |-> InvReady]
    /\ writes = {}
    /\ WeightIdle
    /\ ConstitutiveIdle
    /\ DispatchIdle
    /\ MaterialIdle
    /\ KernelsIdle

StepNext ==
    \/ RunClearGrid
    \/ \E p \in StepSlots : P2GLoad(p)
    \/ \E p \in StepSlots : P2GAtomicAdd(p)

SpecStep == StepInit /\ [][StepNext]_vars

(***************************************************************************)
(* Properties of the chain.                                                *)
(***************************************************************************)
AllDone == P2GRunning /\ \A p \in DOMAIN inv : inv[p].pc = "done"
AfterClear == P2GRunning /\ \A p \in DOMAIN inv : inv[p].pc = "ready"

CellX(c) == c % N_GRID_X
CellY(c) == c \div N_GRID_X
\* the centre (c + 0.5) * dx of the cell with linear index c
CellCentre(c) == Vec2(CellMid(CellX(c)), CellMid(CellY(c)))

\* cell c lies in the 3x3 stencil of the cell containing xp
StencilContains(xp, c) ==
    LET ci == containing_idx(xp)
    IN /\ ci[1] >= CellX(c) - 1 /\ ci[1] <= CellX(c) + 1
       /\ ci[2] >= CellY(c) - 1 /\ ci[2] <= CellY(c) + 1

Contribution(xp, c) == FMul(quadratic_weight_2d(VSub(xp, CellCentre(c))), P_MASS)

RECURSIVE ContributionsUpTo(_, _)
ContributionsUpTo(c, p) ==
    IF p < 0 THEN FZero
    ELSE FAdd(ContributionsUpTo(c, p - 1),
              IF StencilContains(xs[p], c) THEN Contribution(xs[p], c) ELSE FZero)

ExpectedMass(c) == ContributionsUpTo(c, Cardinality(DOMAIN xs) - 1)

RECURSIVE MassSumOver(_)
MassSumOver(S) ==
    IF S = {} THEN FZero
    ELSE LET c == CHOOSE c \in S : TRUE
         IN FAdd(grid[c].mass, MassSumOver(S \ {c}))

StencilCells(xp) == {c \in Cells : StencilContains(xp, c)}

AtInteriorCentre(xp) ==
    /\ IsFinite(xp[1]) /\ IsFinite(xp[2])
    /\ containing_idx(xp)[1] \in 1..(N_GRID_X - 2)
    /\ containing_idx(xp)[2] \in 1..(N_GRID_X - 2)
    /\ VEq(xp, containing_center(xp))

Alone(p) ==
    \A q \in DOMAIN xs \ {p} : StencilCells(xs[p]) \cap StencilCells(xs[q]) = {}

(* C1: when every P2G invocation of a pass has finished, under whatever     *)
(* interleaving of their atomic adds, the mass of every grid cell equals   *)
(* (up to rounding) the sum of weight * P_MASS over the particles whose    *)
(* stencil holds it.                                                       *)
C1_MassIsSumOfContributions ==
    AllDone => \A c \in Cells : FClose(grid[c].mass, ExpectedMass(c))

\* the same on the first pass only, whose grid starts zeroed
C1_FirstPassMassIsSum ==
    (AllDone /\ frame = 0) => \A c \in Cells : FClose(grid[c].mass, ExpectedMass(c))

(* C2: a P2G invocation writes nothing for a stencil offset whose cell has *)
(* x or y outside [0, N_GRID_X): every write goes to the linear index of a *)
(* cell inside the grid, and a finished invocation has written exactly the *)
(* stencil cells that lie inside it, wherever the particle is.             *)
C2_OutOfGridOffsetsSkipped ==
    /\ \A w \in writes :
         LET gi == GridIdx(inv[w.p].xp, w.o)
         IN /\ gi[1] >= 0 /\ gi[1] < N_GRID_X
            /\ gi[2] >= 0 /\ gi[2] < N_GRID_X
            /\ w.index = gi[2] * N_GRID_X + gi[1]
            /\ w.index \in Cells
    /\ \A p \in DOMAIN inv :
         inv[p].pc = "done" =>
            {w.o : w \in {u \in writes : u.p = p}} =
               {o \in 1..9 : /\ GridIdx(inv[p].xp, o)[1] \in 0..(N_GRID_X - 1)
                             /\ GridIdx(inv[p].xp, o)[2] \in 0..(N_GRID_X - 1)}

\* a finished invocation of a particle left of the grid that skipped some
\* offsets and wrote others
C2_Witness ==
    \E p \in DOMAIN inv :
        /\ inv[p].pc = "done"
        /\ FLt(inv[p].xp[1], FZero)
        /\ \E o \in 1..9 : GridIdx(inv[p].xp, o)[1] < 0
        /\ \E w \in writes : w.p = p

(* C3: one particle exactly on the centre of an interior cell, P2G run on  *)
(* a zeroed grid: the masses of its 9 stencil cells sum to P_MASS (to      *)
(* within a thousandth of it).                                             *)
C3_StencilMassIsParticleMass ==
    (AllDone /\ frame = 0) =>
        \A p \in DOMAIN xs :
            (AtInteriorCentre(xs[p]) /\ Alone(p)) =>
                FWithin(MassSumOver(StencilCells(xs[p])), P_MASS,
                        FMul(P_MASS, Rat(1, 1000)))

(* C5: when the clear_grid pass of a step has run, every grid cell has     *)
(* mass 0 and momentum (0, 0), whatever the previous step left.            *)
C5_ClearZeroesGrid ==
    AfterClear => \A c \in Cells : FEq(grid[c].mass, FZero) /\ VEq(grid[c].v, VZero)

(* C6: after a step (clear, then all P2G invocations finished) every cell  *)
(* that lies in no particle's 3x3 stencil has mass exactly 0.              *)
C6_MassOnlyInStencils ==
    AllDone =>
        \A c \in Cells :
            (\A p \in DOMAIN xs : ~StencilContains(xs[p], c)) => FEq(grid[c].mass, FZero)

(* C7: in every reachable state, after any prefix of any interleaving of   *)
(* the atomic adds, every grid cell has mass >= 0.                         *)
C7_MassNonNegative == \A c \in Cells : FGe(grid[c].mass, FZero)

\* two invocations in the middle of their scatter, mass already on the grid
C7_Witness ==
    /\ \E p \in DOMAIN inv, q \in DOMAIN inv :
          p # q /\ inv[p].pc = "scatter" /\ inv[q].pc = "scatter"
          /\ \E w \in writes : w.p = p
          /\ \E u \in writes : u.p = q
    /\ \E c \in Cells : FGt(grid[c].mass, FZero)

(* C9: a step of the P2G pass leaves every position, velocity, affine      *)
(* velocity C and material as they were, and changes F or plastic_J only   *)
(* of the particle whose invocation takes that step.                       *)
C9_OnlyFAndJOfOwnParticle ==
    [][P2GRunning =>
         /\ xs' = xs
         /\ vs' = vs
         /\ particle_material' = particle_material
         /\ \A p \in DOMAIN xs :
              /\ particle_matrices'[p].C = particle_matrices[p].C
              /\ (\/ particle_matrices'[p].F # particle_matrices[p].F
                  \/ particle_deformation'[p] # particle_deformation[p])
                   => (inv[p].pc = "ready" /\ inv'[p].pc # "ready")]_vars

\* an invocation has stored a changed F and a changed plastic_J
C9_Witness ==
    /\ P2GRunning
    /\ \E p \in DOMAIN xs :
          /\ inv[p].pc # "ready"
          /\ ~MEq(particle_matrices[p].F, MIdentity)
          /\ ~FEq(particle_deformation[p].J, FOne)
          /\ \E q \in DOMAIN xs : q # p /\ inv[q].pc = "ready"

\* particle p is Jelly with C = 0, and no other particle shares its stencil
JellyAtRest(p) ==
    /\ to_material(particle_material[p]) = "Jelly"
    /\ particle_matrices[p].C = MZero
    /\ Alone(p)

(* C14: one Jelly particle with F = identity, C = 0 and plastic_J = 1, one    *)
(* P2G invocation on a zeroed grid: F is still the identity, plastic_J is 1,  *)
(* the affine stress is zero, and the momentum of every cell of its stencil   *)
(* is (up to rounding) that cell's mass times the particle velocity.          *)
C14_JellyAtRestTransfer ==
    (AllDone /\ frame = 0) =>
        \A p \in DOMAIN xs :
            JellyAtRest(p) =>
                /\ MEq(particle_matrices[p].F, MIdentity)
                /\ FEq(particle_deformation[p].J, FOne)
                /\ MEq(inv[p].affine_stress, MZero)
                /\ \A c \in StencilCells(inv[p].xp) :
                      VClose(grid[c].v, VScale(vs[p], grid[c].mass))

\* the pass on a zeroed grid has finished for a moving Jelly particle on an
\* interior cell centre, whose nine stencil cells all carry mass and momentum
C14_Witness ==
    /\ AllDone
    /\ frame = 0
    /\ \E p \in DOMAIN xs :
          /\ JellyAtRest(p)
          /\ AtInteriorCentre(inv[p].xp)
          /\ ~FEq(vs[p][1], FZero) /\ ~FEq(vs[p][2], FZero)
          /\ Cardinality(StencilCells(inv[p].xp)) = 9
          /\ \A c \in StencilCells(inv[p].xp) :
                /\ FGt(grid[c].mass, FZero)
                /\ ~FEq(grid[c].v[1], FZero) /\ ~FEq(grid[c].v[2], FZero)

(***************************************************************************)
(* The 1-D dispatch of the p2g kernel: num_workgroups_1d(n) workgroups of  *)
(* WORKGROUP_SIZE invocations, invocation id.x taking particle index p.    *)
(***************************************************************************)
DispatchInit ==
    /\ \E n \in 1..MaxDispatchN :
         disp = [n |-> n, launched |-> 0,
                 total |-> num_workgroups_1d(n)[1] * WORKGROUP_SIZE, ids |-> {}]
    /\ WeightIdle
    /\ ConstitutiveIdle
    /\ ChainIdle
    /\ MaterialIdle
    /\ KernelsIdle

\* the next invocation starts: p = id.x (p2g.rs line 41), used to index the
\* particle arrays from line 42 on
LaunchInvocation ==
    /\ disp.launched < disp.total
    /\ disp' = [disp EXCEPT !.launched = @ + 1, !.ids = @ \cup {disp.launched}]
    /\ UNCHANGED <<wvars, cm, pvars, gvars, mat, kvars>>

SpecDispatch == DispatchInit /\ [][LaunchInvocation]_vars

(* C10: P2G runs exactly one invocation per particle: the dispatch has N   *)
(* invocations and every invocation's index p is below N, also when N is   *)
(* not a multiple of WORKGROUP_SIZE.                                       *)
C10_OneInvocationPerParticle ==
    disp.launched = disp.total =>
        /\ disp.total = disp.n
        /\ \A p \in disp.ids : p < disp.n

(***************************************************************************)
(* Material tags: host data, the upload of VulkanoComputeChain::new, and   *)
(* lines 41-47 of each p2g invocation.                                     *)
(***************************************************************************)
\* MaterialPod is a Pod wrapper of a u8: host data may hold any byte
MaterialBytes == 0..MaxMaterialTag

\* IntoDescriptorSetByName::with_gpu_buffer: the host data copied as they are
with_gpu_buffer(data) == [p \in DOMAIN data |-> data[p]]

MaterialInit ==
    /\ mat \in [data : [Particles -> MaterialBytes], phase : {"host"},
                pc : {[p \in Particles |-> "ready"]}]
    /\ WeightIdle
    /\ ConstitutiveIdle
    /\ ChainIdle
    /\ DispatchIdle
    /\ KernelsIdle

\* VulkanoComputeChain::new: uploads the buffers and builds the command
\* buffer; it looks at no buffer element
ChainNew ==
    /\ mat.phase = "host"
    /\ mat' = [mat EXCEPT !.data = with_gpu_buffer(mat.data), !.phase = "built"]
    /\ UNCHANGED <<wvars, cm, pvars, gvars, disp, kvars>>

\* line 47 of invocation p: to_material panics on a tag it does not know,
\* which ends the invocation
MaterialLoad(p) ==
    /\ mat.phase = "built"
    /\ mat.pc[p] = "ready"
    /\ mat' = [mat EXCEPT !.pc[p] =
                  IF to_material(mat.data[p]) = "panic" THEN "panicked" ELSE "running"]
    /\ UNCHANGED <<wvars, cm, pvars, gvars, disp, kvars>>

MaterialNext == ChainNew \/ \E p \in Particles : MaterialLoad(p)

SpecMaterial == MaterialInit /\ [][MaterialNext]_vars

(* C11: no P2G invocation panics during a step: once the chain is built     *)
(* every material tag is one of 0, 1, 2 (any other was rejected before),    *)
(* and no invocation ends in the panic of to_material.                      *)
C11_NoPanicInStep ==
    /\ mat.phase = "built" => \A p \in Particles : mat.data[p] \in {0, 1, 2}
    /\ \A p \in Particles : mat.pc[p] # "panicked"

(***************************************************************************)
(* svd2x2_exact called on its own, shaders/src/svd.rs.  The arguments are  *)
(* the matrices of the tests of svd.rs and the matrices                    *)
(* R1 * diag(a, b) * R2^T with R1, R2 rotations and a, b integers of       *)
(* either sign: full rank with either sign of the determinant, rank 1 or   *)
(* close to it (one of a, b is 0), the zero matrix and multiples of        *)
(* rotations and reflections (|a| = |b|); and matrices at the ends of the  *)
(* f32 range, where det(A)^2 (line 52) underflows to 0 or overflows.       *)
(***************************************************************************)
\* a, b range over -SvdMaxEntry..SvdMaxEntry
SvdMaxEntry == 2

\* the rotation with cosine c[1] and sine c[2], as a column-major Mat2
Rotation(c) == MFromCols(Vec2(c[1], c[2]), Vec2(FNeg(c[2]), c[1]))
SvdRotations ==
    {Rotation(c) : c \in {Vec2(FOne, FZero), Vec2(Rat(3, 5), Rat(4, 5)),
                          Vec2(Rat(-4, 5), Rat(3, 5))}}

\* the matrices of exact_reconstructs_known_cases,
\* exact_handles_negative_det_signs and exact_rank_deficient_behaviour
SvdTestCases ==
    { MFromCols(Vec2(FInt(3), FZero), Vec2(FZero, FInt(2))),
      MFromCols(Vec2(FInt(3), FZero), Vec2(FOne, FInt(2))),
      MFromCols(Vec2(FInt(-1), FInt(4)), Vec2(FInt(2), FInt(-3))),
      MFromCols(VZero, VZero),
      MFromCols(Vec2(Rat(5, 2), Rat(-15, 2)),
                VScale(Vec2(Rat(5, 2), Rat(-15, 2)), FInt(3))),
      MFromCols(Vec2(FInt(100000000), FZero), Vec2(FZero, Rat(1, 10000))),
      MFromCols(Vec2(FOne, FInt(2)), Vec2(FInt(3), FInt(-4))),
      MFromCols(Vec2(FInt(2), FOne), Vec2(FInt(3), FInt(-5))),
      MFromCols(Vec2(FInt(-4), FOne), VScale(Vec2(FInt(-4), FOne), Rat(1, 4))) }

\* 2^k as an f32, -126 <= k <= 127
FPow2(k) == F32(0, k - 23, 8388608)

\* Matrices whose determinant is not 0 while det(A)^2 is outside the f32
\* range: diag(1, 2^-100), 2^-40 * I, diag(2^-40, -2^-40), a rotation by
\* (3/5, 4/5) scaled by 2^-40 (det(A)^2 = 0, so lambda2 = 0 and s2 = 0) and
\* 2^33 * I (det(A)^2 = inf); and the rank-1 matrix diag(2^-40, 0).
SvdScaleCases ==
    { MFromDiagonal(Vec2(FOne, FPow2(-100))),
      MFromDiagonal(Vec2(FPow2(-40), FPow2(-40))),
      MFromDiagonal(Vec2(FPow2(-40), FNeg(FPow2(-40)))),
      MScale(Rotation(Vec2(Rat(3, 5), Rat(4, 5))), FPow2(-40)),
      MFromDiagonal(Vec2(FPow2(33), FPow2(33))),
      MFromDiagonal(Vec2(FPow2(-40), FZero)) }

SvdArguments ==
    SvdTestCases \cup SvdScaleCases \cup
    {MMulMat2(MMulMat2(r1, MFromDiagonal(Vec2(FInt(a), FInt(b)))), MTranspose(r2)) :
        r1 \in SvdRotations, r2 \in SvdRotations,
        a \in (-SvdMaxEntry)..SvdMaxEntry, b \in (-SvdMaxEntry)..SvdMaxEntry}

SvdInit ==
    /\ sv \in [a : SvdArguments, done : {FALSE}, pre : {SvdNone}, out : {SvdNone}]
    /\ WeightIdle
    /\ ConstitutiveIdle
    /\ ChainIdle
    /\ DispatchIdle
    /\ MaterialIdle
    /\ PassIdle
    /\ BitonicIdle

\* the call: pre is what lines 31-123 computed, out is what the call returns
SvdCall ==
    /\ ~sv.done
    /\ sv' = [sv EXCEPT !.done = TRUE, !.pre = svd_unsigned(sv.a),
                        !.out = svd2x2_exact(sv.a)]
    /\ UNCHANGED <<wvars, cm, pvars, gvars, disp, mat, pass, bit>>

SpecSvd == SvdInit /\ [][SvdCall]_vars

\* the Frobenius norm, squared
FrobSq(m) == FAdd(FAdd(FAdd(FMul(m[1][1], m[1][1]), FMul(m[1][2], m[1][2])),
                       FMul(m[2][1], m[2][1])), FMul(m[2][2], m[2][2]))
\* frob of the tests of svd.rs
frob(m) == FSqrt(FrobSq(m))
\* U * diag(s) * V^T of a result r
Reconstruct(r) == MMulMat2(MMulMat2(r.u, MFromDiagonal(r.s)), MTranspose(r.v))
\* is_orthonormal of the tests of svd.rs
is_orthonormal(q, tol) ==
    FLe(frob(MSub(MMulMat2(MTranspose(q), q), MIdentity)), tol)
\* the tolerances of exact_reconstructs_known_cases
ReconstructTol(a) == FMul(Rat(1, 100000), FAdd(FOne, frob(a)))
OrthonormalTol == Rat(5, 1000000)

(* C15: for every argument A, singular, rank 1 and zero included, the call  *)
(* returns U, (s1, s2), V with U * diag(s1, s2) * V^T = A (within           *)
(* 1e-5 * (1 + ||A||_F) in Frobenius norm) and with U and V orthonormal     *)
(* (within 5e-6).                                                           *)
C15_Reconstructs ==
    sv.done =>
        /\ FLe(frob(MSub(Reconstruct(sv.out), sv.a)), ReconstructTol(sv.a))
        /\ is_orthonormal(sv.out.u, OrthonormalTol)
        /\ is_orthonormal(sv.out.v, OrthonormalTol)

(* C16: the singular values satisfy s1 >= s2 >= 0, s1 * s2 = |det(A)|       *)
(* (within 5e-5 * (1 + |det(A)|)) and s1^2 + s2^2 = ||A||_F^2 (within       *)
(* 5e-4 * (1 + ||A||_F^2)).                                                 *)
C16_SingularValues ==
    sv.done =>
        /\ FGe(sv.out.s[1], sv.out.s[2])
        /\ FGe(sv.out.s[2], FZero)
        /\ FWithin(FMul(sv.out.s[1], sv.out.s[2]), FAbs(MDeterminant(sv.a)),
                   FMul(Rat(5, 100000), FAdd(FOne, FAbs(MDeterminant(sv.a)))))
        /\ FWithin(FAdd(FMul(sv.out.s[1], sv.out.s[1]),
                        FMul(sv.out.s[2], sv.out.s[2])),
                   FrobSq(sv.a),
                   FMul(Rat(5, 10000), FAdd(FOne, FrobSq(sv.a))))

\* m with its second column negated
FlipSecondColumn(m) == MFromCols(m[1], VNeg(m[2]))
\* the sign of a value as -1, 0 or 1
FSign(a) == FCmp(a, FZero)

(* C17: the returned U has det(U) >= 0; when det(A) # 0 the sign of         *)
(* det(U) * det(V) is the sign of det(A); when det(U) < 0 before the last   *)
(* step, the second columns of U and of V are negated together and          *)
(* U * diag(s) * V^T stays what it was; otherwise U and V are returned as   *)
(* they were.                                                               *)
C17_SignConvention ==
    sv.done =>
        /\ FGe(MDeterminant(sv.out.u), FZero)
        /\ ~FEq(MDeterminant(sv.a), FZero) =>
              FSign(FMul(MDeterminant(sv.out.u), MDeterminant(sv.out.v)))
                 = FSign(MDeterminant(sv.a))
        /\ IF FLt(MDeterminant(sv.pre.u), FZero)
           THEN /\ sv.out.u = FlipSecondColumn(sv.pre.u)
                /\ sv.out.v = FlipSecondColumn(sv.pre.v)
                /\ sv.out.s = sv.pre.s
                /\ MEq(Reconstruct(sv.out), Reconstruct(sv.pre))
           ELSE sv.out = sv.pre

\* the vector w turned by a quarter turn, (-w.y, w.x)
Perpendicular(w) == Vec2(FNeg(w[2]), w[1])

\* The locals of the call on a when it reaches the rank test of line 109:
\* det_a and the eigenvalues, s2 = sqrt(lambda2), B = A * V, u0
SvdEigen(a) == svd_entries(a[1][1], a[2][1], a[1][2], a[2][2])
SvdS2Raw(a) == FSqrt(SvdEigen(a).lambda2)
SvdBMat(a) == MMulMat2(a, SvdEigen(a).v)
SvdU0Raw(a) ==
    IF FGt(FSqrt(SvdEigen(a).lambda1), FZero)
    THEN VDivS(SvdBMat(a)[1], FSqrt(SvdEigen(a).lambda1))
    ELSE Vec2(FOne, FZero)
\* the threshold of s2_tiny, 8 * f32::MIN_POSITIVE
S2Tiny == FMul(F32_MIN_POSITIVE, FInt(8))

\* the case of the claim: det(A) = 0, or s2 zero or denormal-tiny
RankDeficientCase(a) ==
    \/ FEq(SvdEigen(a).det_a, FZero)
    \/ FEq(SvdS2Raw(a), FZero)
    \/ FLe(SvdS2Raw(a), S2Tiny)

\* the second column of U that line 120 makes of u0 and a second column w
OrthonormalizedAgainst(u0, w) ==
    VNormalize(VSub(w, VScale(u0, VDot(u0, w))))

wrap_particles(xi) == Vec2(wrap_coord(xi[1]), wrap_coord(xi[2]))
\* shaders/src/bindless.rs wrap_particles, on one position
wrap_particles_bindless(xi) == Vec2(FRemOne(xi[1]), FRemOne(xi[2]))

\* the body of invocation i of the kernel of the chain entry spec, on the buffers
KernelBody(spec, bufs, i) ==
    CASE spec.kernel = "adder" ->
            [bufs EXCEPT ![spec.buffers[1]][i] =
                add_update_u32(bufs[spec.buffers[1]][i], bufs[spec.buffers[2]][i])]
      [] spec.kernel = "step_particles" ->
            [bufs EXCEPT ![spec.buffers[1]][i] =
                add_update(bufs[spec.buffers[1]][i], bufs[spec.buffers[2]][i])]
      [] spec.kernel = "wrap_particles" ->
            [bufs EXCEPT ![spec.buffers[1]][i] = wrap_particles(bufs[spec.buffers[1]][i])]
      [] spec.kernel = "bindless::wrap_particles" ->
            [bufs EXCEPT ![spec.buffers[1]][i] =
                wrap_particles_bindless(bufs[spec.buffers[1]][i])]

\* the chains that are run; the last is the wrap kernel of the unified-buffer
\* runner on its own
AdderChain ==
    << AdderAB,
       invoc_spec("adder_ac", <<"a", "c">>, "adder"),
       invoc_spec("adder_ad", <<"a", "d">>, "adder") >>
AdderOnceChain == << AdderAB >>
StepWrapChain == << StepParticlesEntry(0), StepParticlesEntry(1), WrapParticlesEntry >>
StepFourChain ==
    << StepParticlesEntry(0), StepParticlesEntry(1), StepParticlesEntry(2),
       StepParticlesEntry(3) >>
WrapChain == << WrapParticlesEntry >>
BindlessWrapChain ==
    << invoc_spec("wrap_particles", <<"x">>, "bindless::wrap_particles") >>

\* the kernel entries in the order the command buffer runs them, last first
KernelAtReversed(chain, k) == chain[Len(chain) + 1 - k]

\* build_compute_pass_command_buffer: dispatch k is entry k of the chain
KernelAt(chain, k) == chain[k]

\* start values: the positions of the tests and some further outside [0, 1)
AdderStarts == {U32(0), U32(5)}
\* operands of the single adder: around u32::MAX, around 2^31 and 2^16
OverflowStarts == {U32_MAX, <<65535, 65534>>, <<32768, 0>>, <<0, 65535>>}
OverflowAddends == {U32(1), U32_MAX, <<32768, 1>>}
StepStarts == {Vec2(Rat(4, 5), Rat(9, 10)), Vec2(Rat(1, 5), Rat(1, 2))}
\* test_multiple_step_particles_executions: x = (0.1, 0.2), v = (0.05, 0.1)
FourStepStarts == {Vec2(Rat(1, 10), Rat(1, 5)), Vec2(Rat(4, 5), Rat(9, 10))}
WrapStarts ==
    {Vec2(Rat(13, 10), Rat(27, 10)), Vec2(Rat(-3, 2), Rat(1, 2)),
     Vec2(Rat(1, 4), Rat(-1, 2)), Vec2(FOne, Rat(-1, 1000000000))}

BuffersOf(a, x, v) ==
    [a |-> a, b |-> [i \in Elems |-> U32(1)], c |-> [i \in Elems |-> U32(10)],
     d |-> [i \in Elems |-> U32(100)], x |-> x, v |-> v]

PassStarts ==
    {[chain |-> AdderChain, bufs |-> BuffersOf(a, [i \in Elems |-> VZero],
                                               [i \in Elems |-> VZero])] :
        a \in [Elems -> AdderStarts]}
    \cup {[chain |-> StepWrapChain,
           bufs |-> BuffersOf([i \in Elems |-> U32(0)], x,
                              [i \in Elems |-> Vec2(Rat(3, 20), Rat(3, 20))])] :
        x \in [Elems -> StepStarts]}
    \cup {[chain |-> StepFourChain,
           bufs |-> BuffersOf([i \in Elems |-> U32(0)], x,
                              [i \in Elems |-> Vec2(Rat(1, 20), Rat(1, 10))])] :
        x \in [Elems -> FourStepStarts]}
    \cup {[chain |-> ch, bufs |-> BuffersOf([i \in Elems |-> U32(0)], x,
                                            [i \in Elems |-> VZero])] :
        ch \in {WrapChain, BindlessWrapChain}, x \in [Elems -> WrapStarts]}
    \cup {[chain |-> AdderOnceChain,
           bufs |-> [BuffersOf(a, [i \in Elems |-> VZero], [i \in Elems |-> VZero])
                       EXCEPT !.b = [i \in Elems |-> b]]] :
        a \in [Elems -> OverflowStarts], b \in OverflowAddends}

PassInit ==
    /\ \E st \in PassStarts :
          pass = [chain |-> st.chain, cur |-> 1, todo |-> Elems, bufs |-> st.bufs,
                  start |-> st.bufs]
    /\ WeightIdle
    /\ ConstitutiveIdle
    /\ ChainIdle
    /\ DispatchIdle
    /\ MaterialIdle
    /\ SvdIdle
    /\ BitonicIdle

\* invocation i of the running dispatch
PassInvoke(i) ==
    /\ pass.cur >= 1 /\ pass.cur <= Len(pass.chain)
    /\ i \in pass.todo
    /\ pass' = [pass EXCEPT !.bufs = KernelBody(KernelAt(pass.chain, pass.cur), pass.bufs, i),
                            !.todo = pass.todo \ {i}]
    /\ UNCHANGED <<wvars, cm, pvars, gvars, disp, mat, sv, bit>>

\* the running dispatch has completed: the next one starts, or the fence of
\* execute() signals
PassNextDispatch ==
    /\ pass.cur >= 1 /\ pass.cur <= Len(pass.chain)
    /\ pass.todo = {}
    /\ pass' = [pass EXCEPT !.cur = pass.cur + 1,
                            !.todo = IF pass.cur < Len(pass.chain) THEN Elems ELSE {}]
    /\ UNCHANGED <<wvars, cm, pvars, gvars, disp, mat, sv, bit>>

PassNext == PassNextDispatch \/ \E i \in Elems : PassInvoke(i)

SpecPass == PassInit /\ [][PassNext]_vars

\* execute() has returned
PassDone == pass.cur = Len(pass.chain) + 1

\* c reduced modulo 1.0 into [0, 1): c - floor(c)
ModuloOne(c) == FSub(c, FFloor(c))
\* r is c modulo 1.0 up to rounding; a c just below a whole number has
\* c - floor(c) rounded to 1.0, which stands for the same point as r = 0.0
IsModuloOne(r, c) ==
    \/ FWithin(r, ModuloOne(c), Rat(1, 1000000))
    \/ FWithin(FAdd(r, FOne), ModuloOne(c), Rat(1, 1000000))

(* C19: after the wrap_particles kernel each coordinate of each position is *)
(* the input coordinate reduced modulo 1.0 and lies in [0, 1), for every    *)
(* finite input, also at or above 2.0 and below -1.0.                       *)
C19_WrapIsModuloOne ==
    (PassDone /\ pass.chain \in {WrapChain, BindlessWrapChain}) =>
        \A i \in Elems : \A k \in 1..2 :
            /\ IsModuloOne(pass.bufs.x[i][k], pass.start.x[i][k])
            /\ FGe(pass.bufs.x[i][k], FZero)
            /\ FLt(pass.bufs.x[i][k], FOne)

\* the buffers after every invocation of chain entry spec has run, in index order
RECURSIVE KernelOnAll(_, _, _)
KernelOnAll(spec, bufs, n) ==
    IF n = 0 THEN bufs ELSE KernelBody(spec, KernelOnAll(spec, bufs, n - 1), n - 1)

\* the buffers after the first k entries of the chain, one after another
RECURSIVE AppliedInOrder(_, _, _)
AppliedInOrder(chain, bufs, k) ==
    IF k = 0 THEN bufs
    ELSE KernelOnAll(chain[k], AppliedInOrder(chain, bufs, k - 1), PassElems)

(* C20: when execute() has returned the buffers hold the result of applying *)
(* the kernels of the chain one after another in the listed order, each on  *)
(* the buffers the ones before it left: [adder(a,b), adder(a,c),            *)
(* adder(a,d)] leaves a = a0 + b + c + d, [step, step, wrap] leaves         *)
(* x = wrap(x0 + v + v), four steps leave x = x0 + v + v + v + v; and while *)
(* dispatch k runs, every element holds                                     *)
(* either the result of the first k - 1 kernels or that of the first k.     *)
C20_KernelsInListedOrder ==
    /\ PassDone =>
          /\ pass.bufs = AppliedInOrder(pass.chain, pass.start, Len(pass.chain))
          /\ pass.chain = AdderChain =>
                \A i \in Elems :
                    pass.bufs.a[i] = U32(pass.start.a[i][2] + pass.start.b[i][2]
                                         + pass.start.c[i][2] + pass.start.d[i][2])
          /\ pass.chain = StepWrapChain =>
                \A i \in Elems :
                    pass.bufs.x[i] =
                        wrap_particles(VAdd(VAdd(pass.start.x[i], pass.start.v[i]),
                                            pass.start.v[i]))
          /\ pass.chain = StepFourChain =>
                \A i \in Elems :
                    pass.bufs.x[i] =
                        VAdd(VAdd(VAdd(VAdd(pass.start.x[i], pass.start.v[i]),
                                       pass.start.v[i]), pass.start.v[i]),
                             pass.start.v[i])
    /\ (pass.cur >= 1 /\ pass.cur <= Len(pass.chain)) =>
          \A i \in Elems :
              LET before == AppliedInOrder(pass.chain, pass.start, pass.cur - 1)
                  after == AppliedInOrder(pass.chain, pass.start, pass.cur)
              IN /\ pass.bufs.a[i] = IF i \in pass.todo THEN before.a[i] ELSE after.a[i]
                 /\ pass.bufs.x[i] = IF i \in pass.todo THEN before.x[i] ELSE after.x[i]

\* the chain [step, step, wrap] has run on the positions of the test, where
\* wrapping first would leave 1.1 and not 0.1
C20_Witness ==
    /\ PassDone
    /\ pass.chain = StepWrapChain
    /\ \E i \in Elems :
          /\ pass.start.x[i] = Vec2(Rat(4, 5), Rat(9, 10))
          /\ VWithin(pass.bufs.x[i], Vec2(Rat(1, 10), Rat(1, 5)), Rat(1, 1000000))

\* the four bytes of a u32, least significant first
BytesOf(a) == <<a[2] % 256, a[2] \div 256, a[1] % 256, a[1] \div 256>>
\* byte k of x + y and the carry into byte k + 1, by long addition
RECURSIVE CarryInto(_, _, _)
CarryInto(x, y, k) ==
    IF k = 1 THEN 0 ELSE (x[k - 1] + y[k - 1] + CarryInto(x, y, k - 1)) \div 256
SumByte(x, y, k) == (x[k] + y[k] + CarryInto(x, y, k)) % 256
\* (a + b) mod 2^32: the low four bytes of the long addition
SumMod2To32(a, b) ==
    <<SumByte(BytesOf(a), BytesOf(b), 3) + 256 * SumByte(BytesOf(a), BytesOf(b), 4),
      SumByte(BytesOf(a), BytesOf(b), 1) + 256 * SumByte(BytesOf(a), BytesOf(b), 2)>>

(* C21: the adder kernel leaves a[i] = (a[i] + b[i]) mod 2^32 at every index *)
(* i: an overflowing sum wraps around (u32::MAX + 1 is 0), every invocation  *)
(* completes, and b is left as it was.                                       *)
C21_AdderWraps ==
    /\ (PassDone /\ pass.chain = AdderOnceChain) =>
          /\ pass.bufs.b = pass.start.b
          /\ \A i \in Elems :
                /\ pass.bufs.a[i] = SumMod2To32(pass.start.a[i], pass.start.b[i])
                /\ (pass.start.a[i] = U32_MAX /\ pass.start.b[i] = U32(1)) =>
                      pass.bufs.a[i] = U32(0)
    /\ (pass.chain = AdderOnceChain /\ pass.cur = 1) =>
          \A i \in Elems \ pass.todo :
              pass.bufs.a[i] = SumMod2To32(pass.start.a[i], pass.start.b[i])

\* the chain of test_overflow_behavior has run: u32::MAX + 1 gave 0
C21_Witness ==
    /\ PassDone
    /\ pass.chain = AdderOnceChain
    /\ \A i \in Elems :
          /\ pass.start.a[i] = U32_MAX
          /\ pass.start.b[i] = U32(1)
          /\ pass.bufs.a[i] = U32(0)

(***************************************************************************)
(* The bitonic sort: kernel/src/lib.rs run by SortRunner::sort on the CPU  *)
(* runner.  Keys are u32 values as pairs of 16-bit halves; a slice is a    *)
(* sequence, element i of the source at position i + 1.                    *)
(***************************************************************************)
U32Gt(a, b) == a[1] > b[1] \/ (a[1] = b[1] /\ a[2] > b[2])
U32Lt(a, b) == U32Gt(b, a)
U32_MIN == U32(0)

RECURSIVE BitXor(_, _)
BitXor(a, b) ==
    IF a = 0 THEN b
    ELSE IF b = 0 THEN a
    ELSE 2 * BitXor(a \div 2, b \div 2) + (((a % 2) + (b % 2)) % 2)

\* ComparisonDistance::from_stage_pass: 1u32 << (stage - pass)
from_stage_pass(stage, pass_of_stage) == 2 ^ (stage - pass_of_stage)

\* ComparisonDistance::find_partner
find_partner(thread_id, distance) == BitXor(thread_id, distance)

\* ComparisonPair::try_new: the pair and whether this thread handles it
try_new_either_side(thread_id, partner) ==
    [is_valid |-> partner # thread_id, lower |-> thread_id, upper |-> partner]
try_new(thread_id, partner) ==
    [is_valid |-> partner > thread_id, lower |-> thread_id, upper |-> partner]

is_in_bounds(pair, num_elements) == pair.upper < num_elements

\* BitonicDirection::from_position; TRUE is BitonicDirection::Up
from_position_flat(thread_id, stage, sort_order) == sort_order = "Ascending"
from_position(thread_id, stage, sort_order) ==
    IF sort_order = "Ascending"
    THEN (thread_id \div (2 * 2 ^ stage)) % 2 = 0
    ELSE ~((thread_id \div (2 * 2 ^ stage)) % 2 = 0)

\* BitonicDirection::should_swap
should_swap(direction, val_i, val_j) ==
    IF direction THEN U32Gt(val_i, val_j) ELSE U32Lt(val_i, val_j)

\* compare_and_swap on the slice
compare_and_swap(data, pair, direction) ==
    IF should_swap(direction, data[pair.lower + 1], data[pair.upper + 1])
    THEN [data EXCEPT ![pair.lower + 1] = data[pair.upper + 1],
                      ![pair.upper + 1] = data[pair.lower + 1]]
    ELSE data

\* the pair a thread handles in a pass, or none
PairOf(thread_id, stage, pass_of_stage) ==
    try_new(thread_id,
            find_partner(thread_id, from_stage_pass(stage, pass_of_stage)))

Handles(thread_id, stage, pass_of_stage, num_elements) ==
    /\ thread_id < num_elements
    /\ PairOf(thread_id, stage, pass_of_stage).is_valid
    /\ is_in_bounds(PairOf(thread_id, stage, pass_of_stage), num_elements)

bitonic_sort_step(thread_id, data, stage, pass_of_stage, num_elements, sort_order) ==
    IF Handles(thread_id, stage, pass_of_stage, num_elements)
    THEN compare_and_swap(data, PairOf(thread_id, stage, pass_of_stage),
                          from_position(thread_id, stage, sort_order))
    ELSE data

\* CpuRunner::execute_kernel_pass: the threads 0 .. num_elements - 1 in order
RECURSIVE ThreadsUpTo(_, _, _, _, _, _)
ThreadsUpTo(k, data, stage, pass_of_stage, num_elements, sort_order) ==
    IF k = 0 THEN data
    ELSE bitonic_sort_step(k - 1,
             ThreadsUpTo(k - 1, data, stage, pass_of_stage, num_elements,
                         sort_order),
             stage, pass_of_stage, num_elements, sort_order)

execute_kernel_pass(data, stage, pass_of_stage, num_elements, sort_order) ==
    ThreadsUpTo(num_elements, data, stage, pass_of_stage, num_elements,
                sort_order)

\* usize::next_power_of_two
next_power_of_two(n) ==
    IF n <= 1 THEN 1 ELSE CHOOSE q \in 1..(2 * n) :
        /\ q >= n
        /\ \E e \in 0..n : q = 2 ^ e
        /\ \A r \in 1..(q - 1) : r >= n => ~(\E e \in 0..n : r = 2 ^ e)

\* (n as f32).log2() as u32, n a power of two below 2^24
log2_u32(n) == CHOOSE e \in 0..n : 2 ^ e <= n /\ n < 2 ^ (e + 1)

\* SortRunner::pad_data
pad_data_min_sentinel(data, original_size, order) ==
    data \o [i \in 1..(next_power_of_two(original_size) - original_size)
                |-> U32_MIN]
pad_data(data, original_size, order) ==
    data \o [i \in 1..(next_power_of_two(original_size) - original_size)
                |-> IF order = "Ascending" THEN U32_MAX ELSE U32_MIN]

\* Vec::truncate followed by SortRunner::finalize_data into the slice
finalize_data(gpu_data, output) ==
    [i \in 1..Len(output) |-> IF i <= Len(gpu_data) THEN gpu_data[i]
                                                   ELSE output[i]]

SortKeys == {U32(k) : k \in 0..SortKeyMax} \cup {U32_MAX}
SortOrders == {"Ascending", "Descending"}
SortInputs == UNION {[1..n -> SortKeys] : n \in 0..MaxSortLen}

SortInit ==
    /\ \E input \in SortInputs, order \in SortOrders :
         bit = [phase |-> "call", input |-> input, order |-> order,
                data |-> << >>, stage |-> 0, pass |-> 0, th |-> << >>,
                touched |-> {}, out |-> input]
    /\ WeightIdle
    /\ ConstitutiveIdle
    /\ ChainIdle
    /\ DispatchIdle
    /\ MaterialIdle
    /\ SvdIdle
    /\ PassIdle

\* sort: the early return of a slice of at most one element
SortReturnShort ==
    /\ bit.phase = "call"
    /\ Len(bit.input) <= 1
    /\ bit' = [bit EXCEPT !.phase = "done"]
    /\ UNCHANGED <<wvars, cm, pvars, gvars, disp, mat, sv, pass>>

\* sort: prepare_data and pad_data
SortPrepare ==
    /\ bit.phase = "call"
    /\ Len(bit.input) > 1
    /\ bit' = [bit EXCEPT !.phase = "stages",
                          !.data = pad_data(bit.input, Len(bit.input), bit.order)]
    /\ UNCHANGED <<wvars, cm, pvars, gvars, disp, mat, sv, pass>>

\* run_bitonic_stages: one execute_kernel_pass and the loop counters
SortKernelPass ==
    /\ bit.phase = "stages"
    /\ bit.stage < log2_u32(Len(bit.data))
    /\ bit' = [bit EXCEPT
            !.data = execute_kernel_pass(bit.data, bit.stage, bit.pass,
                                         Len(bit.data), bit.order),
            !.pass = IF bit.pass = bit.stage THEN 0 ELSE bit.pass + 1,
            !.stage = IF bit.pass = bit.stage THEN bit.stage + 1 ELSE bit.stage]
    /\ UNCHANGED <<wvars, cm, pvars, gvars, disp, mat, sv, pass>>

\* sort: truncate and finalize_data once the stages are through
SortFinish ==
    /\ bit.phase = "stages"
    /\ bit.stage >= log2_u32(Len(bit.data))
    /\ bit' = [bit EXCEPT
            !.phase = "done",
            !.out = finalize_data(SubSeq(bit.data, 1, Len(bit.input)), bit.input)]
    /\ UNCHANGED <<wvars, cm, pvars, gvars, disp, mat, sv, pass>>

SortNext == SortReturnShort \/ SortPrepare \/ SortKernelPass \/ SortFinish

SpecSort == SortInit /\ [][SortNext]_vars

CountOf(seq, k) == Cardinality({i \in 1..Len(seq) : seq[i] = k})
IsPermutation(s1, s2) ==
    /\ Len(s1) = Len(s2)
    /\ \A k \in SortKeys : CountOf(s1, k) = CountOf(s2, k)

\* verify_sorted
verify_sorted(data, order) ==
    \A i \in 1..(Len(data) - 1) :
        IF order = "Ascending" THEN ~U32Gt(data[i], data[i + 1])
                               ELSE ~U32Lt(data[i], data[i + 1])

\* C22: whatever the length of the slice and the order asked for, sort on the
\* CPU runner leaves the slice a permutation of its input that is sorted in
\* that order; no padding sentinel stays in it or pushes an element out.
C22_SortedPermutation ==
    bit.phase = "done" =>
        /\ IsPermutation(bit.out, bit.input)
        /\ verify_sorted(bit.out, bit.order)

\* a slice whose length is not a power of two, out of order and holding the
\* value of the sentinel itself, has been sorted
C22_Witness ==
    /\ bit.phase = "done"
    /\ Len(bit.input) = 3
    /\ bit.order = "Ascending"
    /\ bit.input[1] = U32_MAX
    /\ bit.input[3] = U32(0)
    /\ bit.out # bit.input

(***************************************************************************)
(* The particle store under the P2G pass.                                  *)
(***************************************************************************)
\* C23: the step in which invocation p loads and stores its particle takes
\* position, velocity, C, F, plastic_J and material from entry p alone and
\* writes F and plastic_J of entry p alone; every other step of the pass
\* leaves the particle store as it is, so invocations share only the grid.
C23_OwnEntryOnly ==
    [][P2GRunning =>
         \A p \in DOMAIN xs :
            /\ (inv[p].pc = "ready" /\ inv'[p].pc # "ready") =>
                  /\ inv'[p].xp = xs[p]
                  /\ inv'[p].vp = vs[p]
                  /\ \E res \in ConstitutiveModel(particle_matrices[p].C,
                                   particle_matrices[p].F, particle_deformation[p].J,
                                   to_material(particle_material[p])) :
                        /\ particle_matrices'[p].F = res.F
                        /\ particle_deformation'[p].J = res.Jp
                  /\ \A q \in DOMAIN xs \ {p} :
                        /\ particle_matrices'[q] = particle_matrices[q]
                        /\ particle_deformation'[q] = particle_deformation[q]
            /\ (inv[p].pc = "scatter" /\ inv'[p] # inv[p]) =>
                  /\ pvars' = pvars
                  /\ \A q \in DOMAIN xs \ {p} : inv'[q] = inv[q]]_vars

\* an invocation has loaded its particle while the invocation of a particle
\* with another position, velocity and material has not started
C23_Witness ==
    /\ P2GRunning
    /\ \E p, q \in DOMAIN xs :
          /\ inv[p].pc = "scatter"
          /\ inv[q].pc = "ready"
          /\ inv[p].xp = xs[p]
          /\ xs[q] # xs[p]
          /\ vs[q] # vs[p]
          /\ particle_material[q] # particle_material[p]

(***************************************************************************)
(* The accumulation on the grid.                                           *)
(***************************************************************************)
\* what the finished invocation p has added to the mass and momentum of c
AddedMass(p, c) ==
    MassAdd(inv[p].xp, The(OffsetsInto(inv[p].xp, c)))

AddedMomentum(p, c) ==
    VAddend(inv[p].xp, inv[p].vp, inv[p].affine_stress,
            The(OffsetsInto(inv[p].xp, c)))

\* the invocations that add to cell c
Contributors(c) == {p \in DOMAIN inv : OffsetsInto(inv[p].xp, c) # {}}

\* the grid of the running step when its P2G pass started
ClearedZeroGrid == ClearedGrid(ZeroGrid)
ClearedPriorGrid == ClearedGrid(PriorGrid)
PassStartGrid == IF frame = 0 THEN ClearedZeroGrid ELSE ClearedPriorGrid

\* the values b + (the addends of the invocations in S) can take, the adds
\* made one after the other in any order; k = 0 is the mass, k = 1, 2 the
\* components of the momentum
Addend(p, c, k) == IF k = 0 THEN AddedMass(p, c) ELSE AddedMomentum(p, c)[k]
RECURSIVE SumsInAnyOrder(_, _, _, _)
SumsInAnyOrder(b, c, k, S) ==
    IF S = {} THEN {b}
    ELSE UNION {{FAdd(s, Addend(p, c, k)) : s \in SumsInAnyOrder(b, c, k, S \ {p})}
                : p \in S}

\* C24: mass, momentum.x and momentum.y of a cell are three separate scalar
\* atomic adds; however the adds of the invocations interleave, when all
\* invocations of a pass have finished each of the three is what the pass
\* started with plus the contributions made to it, added in some order.
C24_ScalarAddsSumUp ==
    AllDone =>
        \A c \in Cells :
            /\ grid[c].mass \in
                 SumsInAnyOrder(PassStartGrid[c].mass, c, 0, Contributors(c))
            /\ grid[c].v[1] \in
                 SumsInAnyOrder(PassStartGrid[c].v[1], c, 1, Contributors(c))
            /\ grid[c].v[2] \in
                 SumsInAnyOrder(PassStartGrid[c].v[2], c, 2, Contributors(c))

\* the order of the adds shows in the sum of some component of some cell
OrderShows ==
    /\ AllDone
    /\ \E c \in Cells : \E k \in 0..2 :
          Cardinality(SumsInAnyOrder(IF k = 0 THEN PassStartGrid[c].mass
                                     ELSE PassStartGrid[c].v[k],
                                     c, k, Contributors(c))) > 1

\* two invocations have added to the same cell, which held mass and momentum
\* before, with non-zero momentum in both components from each of them, and
\* the order of the adds shows in a sum
C24_Witness ==
    /\ AllDone
    /\ \E c \in Cells : \E p, q \in DOMAIN inv :
          /\ p # q
          /\ Contributors(c) = {p, q}
          /\ FGt(PassStartGrid[c].mass, FZero)
          /\ ~FEq(PassStartGrid[c].v[1], FZero)
          /\ IsFinite(grid[c].v[1]) /\ IsFinite(grid[c].v[2])
          /\ ~FEq(AddedMomentum(p, c)[1], FZero) /\ ~FEq(AddedMomentum(p, c)[2], FZero)
          /\ ~FEq(AddedMomentum(q, c)[1], FZero) /\ ~FEq(AddedMomentum(q, c)[2], FZero)
          /\ FGt(AddedMass(p, c), FZero) /\ FGt(AddedMass(q, c), FZero)
    /\ OrderShows

\* the cell that stencil slot o of particle p addresses: c + o, c = floor(x/dx)
TargetCell(p, o) == linear_grid_index_uvec(GridIdx(xs[p], o))

\* the weight of the specification for particle p and the cell with index c
CellWeight(p, c) ==
    FMul(WeightFormula(FSub(xs[p][1], CellCentre(c)[1])),
         WeightFormula(FSub(xs[p][2], CellCentre(c)[2])))

\* weight * (reference_particle_mass * velocity + affine_stress * grid_pos)
CellMomentum(p, c) ==
    VScale(VAdd(VScale(vs[p], P_MASS),
                MMulVec2(inv[p].affine_stress, CellCentre(c))),
           CellWeight(p, c))

\* C25: every add of the stencil loop of a particle at a finite position goes
\* to cell c + o inside the grid and to no other cell; the add on the mass is
\* (up to rounding) weight * P_MASS and the adds on the momentum are the
\* components of weight * (P_MASS * velocity + affine_stress * grid_pos),
\* with grid_pos the absolute centre (c + 0.5 + o) * dx of that cell and
\* weight the weight function of x - grid_pos.
C25_StencilAddends ==
    [][P2GRunning =>
         \A p \in DOMAIN xs :
            (/\ inv[p].pc = "scatter"
             /\ inv'[p] # inv[p]
             /\ IsFinite(xs[p][1]) /\ IsFinite(xs[p][2])) =>
                /\ TargetCell(p, inv[p].o) \in Cells
                /\ \A c \in Cells \ {TargetCell(p, inv[p].o)} : grid'[c] = grid[c]
                /\ grid'[TargetCell(p, inv[p].o)] =
                     IF inv[p].k = 0
                     THEN [grid[TargetCell(p, inv[p].o)] EXCEPT
                             !.mass = FAdd(@, MassAdd(xs[p], inv[p].o))]
                     ELSE [grid[TargetCell(p, inv[p].o)] EXCEPT
                             !.v[inv[p].k] =
                                FAdd(@, VAddend(xs[p], vs[p], inv[p].affine_stress,
                                                inv[p].o)[inv[p].k])]
                /\ FClose(MassAdd(xs[p], inv[p].o),
                          FMul(CellWeight(p, TargetCell(p, inv[p].o)), P_MASS))
                /\ VClose(VAddend(xs[p], vs[p], inv[p].affine_stress, inv[p].o),
                          CellMomentum(p, TargetCell(p, inv[p].o)))]_vars

\* a particle with a non-zero affine stress has finished the adds of one of
\* its stencil cells away from the origin, leaving mass and momentum there
C25_Witness ==
    /\ P2GRunning
    /\ \E p \in DOMAIN xs : \E w \in writes :
          /\ w.p = p
          /\ w.o < inv[p].o
          /\ IsFinite(xs[p][1]) /\ IsFinite(xs[p][2])
          /\ ~MEq(inv[p].affine_stress, MZero)
          /\ ~VEq(CellCentre(w.index), xs[p])
          /\ FGt(grid[w.index].mass, FZero)
          /\ ~FEq(grid[w.index].v[1], FZero)
          /\ IsFinite(grid[w.index].v[1])

(***************************************************************************)
(* The eigenvector candidate inside svd2x2_exact.                          *)
(***************************************************************************)
\* the entries of A^T A for the argument of the call
GramAlpha(a) == FAdd(FMul(a[1][1], a[1][1]), FMul(a[1][2], a[1][2]))
GramBeta(a) == FAdd(FMul(a[1][1], a[2][1]), FMul(a[1][2], a[2][2]))
GramGamma(a) == FAdd(FMul(a[2][1], a[2][1]), FMul(a[2][2], a[2][2]))
GramLambda1(a) == svd_lambda1(GramAlpha(a), GramBeta(a), GramGamma(a))

\* the two pairs the candidate is chosen from
CandidateA(a) == Vec2(GramBeta(a), FSub(GramLambda1(a), GramAlpha(a)))
CandidateB(a) == Vec2(FSub(GramLambda1(a), GramGamma(a)), GramBeta(a))
ChosenCandidate(a) ==
    svd_candidate(GramAlpha(a), GramBeta(a), GramGamma(a), GramLambda1(a))

\* C26: the candidate taken for the first right-singular vector is the one of
\* (beta, lambda1 - alpha) and (lambda1 - gamma, beta) with the larger
\* magnitude; the fallback to (1,0) or (0,1) is taken only when it is zero.
C26_LargerCandidateChosen ==
    sv.done =>
        /\ FGe(VLengthSquared(ChosenCandidate(sv.a)), VLengthSquared(CandidateA(sv.a)))
        /\ FGe(VLengthSquared(ChosenCandidate(sv.a)), VLengthSquared(CandidateB(sv.a)))

(***************************************************************************)
(* Progress of the P2G pass.  The device runs every invocation of a        *)
(* dispatch to its end: an invocation that can take a step eventually      *)
(* takes it.                                                               *)
(***************************************************************************)
P2GStep(p) == P2GLoad(p) \/ P2GAtomicAdd(p)

SpecLive == StepInit /\ [][StepNext]_vars /\ \A p \in StepSlots : WF_vars(P2GStep(p))

\* the cells invocation p has added to in the running pass
WrittenBy(p) == {w \in writes : w.p = p}

\* C27: an invocation of the P2G pass that has not finished can always take
\* its next step, whatever the other invocations have done; it goes through
\* at most 9 stencil cells with three atomic adds each; and with every
\* invocation scheduled fairly a running pass always reaches the state in
\* which all invocations are done.
C27_P2GTerminates ==
    /\ [](P2GRunning =>
            \A p \in StepSlots :
               /\ inv[p].o <= 10 /\ inv[p].k <= 2
               /\ Cardinality(WrittenBy(p)) <= 9
               /\ inv[p].pc # "done" => ENABLED P2GStep(p))
    /\ (P2GRunning ~> AllDone)

\* a pass has finished in which one invocation went through all 9 cells of
\* its stencil and another through fewer
C27_Witness ==
    /\ AllDone
    /\ \E p \in DOMAIN inv : Cardinality(WrittenBy(p)) = 9
    /\ \E q \in DOMAIN inv : Cardinality(WrittenBy(q)) < 9

(***************************************************************************)
(* Order of the grid clear and the P2G pass in the chain.  The dispatches  *)
(* of one command buffer that bind the grid buffer run one after the       *)
(* other: a dispatch has finished when the next one starts.                *)
(***************************************************************************)
\* the chain entry being run runs the kernel k
Running(k) == cur >= 1 /\ cur <= Len(invocation_chain) /\ invocation_chain[cur].kernel = k

\* no invocation of the P2G pass has started
P2GNotStarted == writes = {} /\ \A p \in DOMAIN inv : inv[p].pc = "ready"

\* C28: in every run of the chain the step that follows the grid clear is the
\* start of the P2G pass, with the clear done and no P2G add made yet; a P2G
\* add happens only in the pass whose preceding chain entry is the clear; and
\* the grid is written by nothing but the clear and the P2G adds.
C28_ClearImmediatelyBeforeP2G ==
    [][/\ Running("clear_grid") =>
            /\ P2GNotStarted
            /\ P2GRunning'
            /\ P2GNotStarted'
            /\ \A i \in ClearedIndices : FEq(grid'[i].mass, FZero)
       /\ (\E p \in DOMAIN inv : inv[p].pc = "scatter") =>
            /\ P2GRunning
            /\ cur > 1 /\ invocation_chain[cur - 1].kernel = "clear_grid"
       /\ grid' # grid =>
            \/ Running("clear_grid")
            \/ /\ P2GRunning
               /\ \E p \in DOMAIN inv : inv[p].pc = "scatter" /\ inv'[p] # inv[p]]_vars

\* the P2G pass of the second run has added mass to a cell that the clear
\* before it had zeroed
C28_Witness ==
    /\ P2GRunning
    /\ frame = 1
    /\ \E w \in writes : w.index \in ClearedIndices /\ FGt(grid[w.index].mass, FZero)

\* the cells some invocation of the clear_grid dispatch indexes
ClearDispatchExtent ==
    <<wg_2d[1] * GRID_WORKGROUP_SIZE[1], wg_2d[2] * GRID_WORKGROUP_SIZE[2]>>

\* C29: the clear_grid dispatch has at least N_GRID invocations in each
\* dimension, so that when the P2G pass of a run starts every cell of the
\* grid has been cleared: no cell holds mass from the run before.
C29_ClearReachesEveryCell ==
    AfterClear =>
        /\ ClearDispatchExtent[1] >= N_GRID_X
        /\ ClearDispatchExtent[2] >= N_GRID_X
        /\ \A i \in Cells : FEq(grid[i].mass, FZero)

(***************************************************************************)
(* One bitonic kernel pass with its threads in any order.  Each thread     *)
(* runs bitonic_sort_step for its id on the shared slice; its reads and    *)
(* its two writes are steps of their own, so the threads interleave        *)
(* between any two accesses of the slice.                                  *)
(***************************************************************************)
ThreadIds == 0..(PassLen - 1)
PassKeys == {U32(k) : k \in 0..SortKeyMax}
PassInputs == UNION {[1..n -> PassKeys] : n \in 2..PassLen}

ThreadReady == [pc |-> "ready", val_i |-> U32(0), val_j |-> U32(0)]

PassOrderInit ==
    /\ \E input \in PassInputs, order \in SortOrders, stage \in 0..PassMaxStage :
         \E pass_of_stage \in 0..stage :
            bit = [phase |-> "pass", input |-> input, order |-> order,
                   data |-> input, stage |-> stage, pass |-> pass_of_stage,
                   th |-> [t \in ThreadIds |-> ThreadReady],
                   touched |-> {}, out |-> << >>]
    /\ WeightIdle
    /\ ConstitutiveIdle
    /\ ChainIdle
    /\ DispatchIdle
    /\ MaterialIdle
    /\ SvdIdle
    /\ PassIdle

ThreadPair(t) == PairOf(t, bit.stage, bit.pass)
ThreadHandles(t) == Handles(t, bit.stage, bit.pass, Len(bit.data))

\* bitonic_sort_step: the early exit of a thread beyond the slice, and the
\* thread whose pair is not valid or not in bounds
ThreadReturn(t) ==
    /\ bit.phase = "pass"
    /\ bit.th[t].pc = "ready"
    /\ ~ThreadHandles(t)
    /\ bit' = [bit EXCEPT !.th[t].pc = "done"]
    /\ UNCHANGED <<wvars, cm, pvars, gvars, disp, mat, sv, pass>>

\* compare_and_swap: the reads of data[i] and data[j]
ThreadLoad(t) ==
    /\ bit.phase = "pass"
    /\ bit.th[t].pc = "ready"
    /\ ThreadHandles(t)
    /\ bit' = [bit EXCEPT
            !.th[t] = [pc |-> "loaded",
                       val_i |-> bit.data[ThreadPair(t).lower + 1],
                       val_j |-> bit.data[ThreadPair(t).upper + 1]],
            !.touched = @ \cup {[t |-> t, i |-> ThreadPair(t).lower],
                                [t |-> t, i |-> ThreadPair(t).upper]}]
    /\ UNCHANGED <<wvars, cm, pvars, gvars, disp, mat, sv, pass>>

ThreadSwaps(t) ==
    should_swap(from_position(t, bit.stage, bit.order),
                bit.th[t].val_i, bit.th[t].val_j)

\* compare_and_swap: should_swap is false, nothing is written
ThreadKeep(t) ==
    /\ bit.phase = "pass"
    /\ bit.th[t].pc = "loaded"
    /\ ~ThreadSwaps(t)
    /\ bit' = [bit EXCEPT !.th[t].pc = "done"]
    /\ UNCHANGED <<wvars, cm, pvars, gvars, disp, mat, sv, pass>>

\* compare_and_swap: data[i] = val_j
ThreadStoreLower(t) ==
    /\ bit.phase = "pass"
    /\ bit.th[t].pc = "loaded"
    /\ ThreadSwaps(t)
    /\ bit' = [bit EXCEPT !.th[t].pc = "stored_i",
                          !.data[ThreadPair(t).lower + 1] = bit.th[t].val_j]
    /\ UNCHANGED <<wvars, cm, pvars, gvars, disp, mat, sv, pass>>

\* compare_and_swap: data[j] = val_i
ThreadStoreUpper(t) ==
    /\ bit.phase = "pass"
    /\ bit.th[t].pc = "stored_i"
    /\ bit' = [bit EXCEPT !.th[t].pc = "done",
                          !.data[ThreadPair(t).upper + 1] = bit.th[t].val_i]
    /\ UNCHANGED <<wvars, cm, pvars, gvars, disp, mat, sv, pass>>

PassOrderNext ==
    \E t \in ThreadIds :
        \/ ThreadReturn(t)
        \/ ThreadLoad(t)
        \/ ThreadKeep(t)
        \/ ThreadStoreLower(t)
        \/ ThreadStoreUpper(t)

SpecPassOrder == PassOrderInit /\ [][PassOrderNext]_vars

PassThreadsDone == bit.phase = "pass" /\ \A t \in ThreadIds : bit.th[t].pc = "done"
PassDistance == from_stage_pass(bit.stage, bit.pass)

\* the elements i < i XOR distance of the slice that form a pair of the pass
PassPairs ==
    {i \in 0..(Len(bit.data) - 1) :
        /\ BitXor(i, PassDistance) > i
        /\ BitXor(i, PassDistance) < Len(bit.data)}

\* C30: in one pass with fixed stage and pass no element of the slice is
\* accessed by two threads; the thread that accesses elements is the lower
\* index of its pair and accesses that index and its XOR with the distance;
\* when all threads are through each pair has been handled by exactly that
\* thread, and the slice is what the threads leave when run one after the
\* other in index order, whatever order they ran in.
C30_PassOrderIndependent ==
    bit.phase = "pass" =>
        /\ \A a, b \in bit.touched : a.i = b.i => a.t = b.t
        /\ \A a \in bit.touched :
              /\ a.t \in PassPairs
              /\ a.i \in {a.t, BitXor(a.t, PassDistance)}
        /\ PassThreadsDone =>
              /\ bit.touched =
                   UNION {{[t |-> i, i |-> i], [t |-> i, i |-> BitXor(i, PassDistance)]} :
                            i \in PassPairs}
              /\ bit.data = execute_kernel_pass(bit.input, bit.stage, bit.pass,
                                                Len(bit.input), bit.order)

\* a pass over four elements is through in which the two threads that handle
\* a pair have each swapped theirs
C30_Witness ==
    /\ PassThreadsDone
    /\ Len(bit.data) = 4
    /\ Cardinality(PassPairs) = 2
    /\ \A i \in PassPairs : bit.data[i + 1] # bit.input[i + 1]

====
